---- MODULE Spec2Model ----
(***************************************************************************)
(* Position ledger, risk manager and simulated account of the high         *)
(* frequency trading bot (trading/execution/*.py, trading/simulation.py).  *)
(*                                                                         *)
(* Units.  Amounts of base currency are integers in which                  *)
(* base_position_size is 10, so that the increment factor 1.0 + strength   *)
(* (strength in tenths) times the base size is a whole number.  Prices are *)
(* integers.  Quote balances are kept in thousandths of amount * price, so *)
(* that the 0.1% fee is exact: a buy costs amount * price * 1001 and a     *)
(* sell yields amount * price * 999.                                       *)
(***************************************************************************)
EXTENDS Integers, Sequences, FiniteSets

VARIABLES
    current_position_size,   \* bot.current_position_size
    position_entry_prices,   \* bot.position_entry_prices: oldest first, [amount, entry_price]
    quote_balance,           \* sim_tracker.quote_balance
    base_balance,            \* sim_tracker.base_balance
    transaction_history,     \* sim_tracker.transaction_history
    balance_history,         \* sim_tracker.balance_history
    now,                     \* wall clock, seconds
    ticks,                   \* iterations of the control loop so far
    df,                      \* closes of the frame fetched by the last tick
    position_change,         \* hf_position of the last fetched frame
    outcome,                 \* how the last tick ended
    call,                    \* the last direct call and its result
    backend,                 \* "json" (trading/simulation.py) or "sqlite" (trading/simulation_db.py)
    data_file,               \* the export simulation_data.json of the symbol's data directory
    db,                      \* the rows of simulation_data.db (sqlite backend)
    snapshot,                \* what the last read of the export by the dashboard returned
    symbols,                 \* main: the configured symbols, in the order of the command line
    max_threads,             \* main: args.max_threads
    main,                    \* where the main thread is
    active_bots,             \* main.active_bots: symbols of the bots constructed so far
    loop,                    \* per submitted symbol, the state of its run_bot task
    loop_ticks,              \* per submitted symbol, iterations of its loop so far
    bots,                    \* per constructed bot, its sim_tracker
    files,                   \* per data directory, its simulation_data.json
    stop,                    \* the stop signal (Ctrl-C) has been delivered
    reports,                 \* per symbol, final dashboards generated
    step,                    \* the last step: which thread took it and what it was
    clock,                   \* wall clock of the process
    bot_statuses,            \* web-ui: bot_statuses, per symbol started so far
    bot_threads,             \* web-ui: every thread started for a bot, oldest first
    stop_requests            \* web-ui: symbols with a stop_bot request in progress

WebVars == <<bot_statuses, bot_threads, stop_requests>>

ProcVars == <<symbols, max_threads, main, active_bots, loop, loop_ticks, bots, files,
              stop, reports, step, clock, WebVars>>

vars == <<current_position_size, position_entry_prices, quote_balance, base_balance,
          transaction_history, balance_history, now, ticks, df, position_change,
          outcome, call, backend, data_file, db, snapshot, ProcVars>>

(* No web application *)
NoWeb ==
    /\ bot_statuses = <<>>
    /\ bot_threads = <<>>
    /\ stop_requests = {}

(* No process of main.py: one bot is looked at on its own *)
NoProcess ==
    /\ NoWeb
    /\ symbols = <<>>
    /\ max_threads = 1
    /\ main = "none"
    /\ active_bots = <<>>
    /\ loop = <<>>
    /\ loop_ticks = <<>>
    /\ bots = <<>>
    /\ files = <<>>
    /\ stop = FALSE
    /\ reports = <<>>
    /\ step = [by |-> "none", what |-> "none"]
    /\ clock = 0

----------------------------------------------------------------------------
(* Bounds of the model *)

MaxTicks == 3
MaxLots == 2
SessionGap == 1000

(* Configuration and program constants *)

base_position_size == 10
max_position_size == 4
max_position_increments == max_position_size
min_signal_strength_for_increment == 5
hf_signal_strength == 8
initial_balance == 60000000
CHECK_INTERVAL == 2
minute_trade_limit == 2
TradeWindow == 60

Prices == {997, 999, 1000, 1005, 5000}
Signals == {-1, 0, 1}
Shapes == {"short", "flat", "down"}

----------------------------------------------------------------------------
(* Helpers *)

Min(a, b) == IF a <= b THEN a ELSE b

RECURSIVE SumAmounts(_)
SumAmounts(lots) ==
    IF lots = <<>> THEN 0 ELSE Head(lots).amount + SumAmounts(Tail(lots))

Lot(amount, entry_price) == [amount |-> amount, entry_price |-> entry_price]

Last(s) == s[Len(s)]

(* list.pop(i), i counted from 1 *)
Pop(s, i) == SubSeq(s, 1, i - 1) \o SubSeq(s, i + 1, Len(s))

(* The frame an Indicator/Signal Provider returns: its closing prices, last
   one the current price. *)
Frame(p, shape) ==
    CASE shape = "short" -> <<p>>
      [] shape = "flat"  -> <<p, p, p>>
      [] shape = "down"  -> <<p + 2, p + 1, p>>

----------------------------------------------------------------------------
(* The state the operations act on, as one record: the bot's ledger fields
   and its sim_tracker's fields. *)

State(cps, lots, quote, base, txs, bals) ==
    [current_position_size |-> cps, position_entry_prices |-> lots,
     quote_balance |-> quote, base_balance |-> base,
     transaction_history |-> txs, balance_history |-> bals]

(* SimulationTracker.__init__: the whole initial balance in quote currency,
   one opening balance entry (which carries no price). *)
SimulationTracker(balance, ts) ==
    [quote_balance |-> balance, base_balance |-> 0,
     transaction_history |-> <<>>,
     balance_history |-> <<[timestamp |-> ts, quote_balance |-> balance,
                            base_balance |-> 0,
                            total_value_in_quote |-> balance]>>]

Transaction(ts, action, amount, price, quote, base) ==
    [timestamp |-> ts, action |-> action, amount |-> amount, price |-> price,
     value |-> amount * price,
     quote_balance_after |-> quote, base_balance_after |-> base]

BalanceEntry(ts, quote, base, price) ==
    [timestamp |-> ts, quote_balance |-> quote, base_balance |-> base,
     price |-> price, total_value_in_quote |-> quote + base * price * 1000]

(* execute_trade with the balance updated before the balance check: a
   rejected buy has already been charged. *)
execute_trade_charged(st, action, amount, price, ts) ==
    LET cost     == amount * price * 1001
        proceeds == amount * price * 999
        quote    == IF action = "buy" THEN st.quote_balance - cost
                    ELSE st.quote_balance + proceeds
        base     == IF action = "buy" THEN st.base_balance + amount
                    ELSE st.base_balance - amount
    IN  IF action = "buy" /\ cost > st.quote_balance
            THEN [ok |-> FALSE, st |-> [st EXCEPT !.quote_balance = quote]]
        ELSE IF action = "sell" /\ amount > st.base_balance
            THEN [ok |-> FALSE, st |-> [st EXCEPT !.base_balance = base]]
        ELSE IF action \notin {"buy", "sell"}
            THEN [ok |-> FALSE, st |-> st]
        ELSE [ok |-> TRUE,
              st |-> [st EXCEPT
                  !.quote_balance = quote,
                  !.base_balance = base,
                  !.transaction_history =
                      Append(@, Transaction(ts, action, amount, price, quote, base)),
                  !.balance_history =
                      Append(@, BalanceEntry(ts, quote, base, price))]]

(* SimulationTracker.execute_trade: [ok, st].  A buy costs
   amount * price * 1.001, a sell yields amount * price * 0.999; a trade the
   balances do not cover, or of an unknown action, returns False before
   anything is touched.  An accepted trade appends one transaction and one
   balance entry. *)
execute_trade(st, action, amount, price, ts) ==
    LET cost     == amount * price * 1001
        proceeds == amount * price * 999
        quote    == IF action = "buy" THEN st.quote_balance - cost
                    ELSE st.quote_balance + proceeds
        base     == IF action = "buy" THEN st.base_balance + amount
                    ELSE st.base_balance - amount
    IN  IF action = "buy" /\ cost > st.quote_balance
            THEN [ok |-> FALSE, st |-> st]
        ELSE IF action = "sell" /\ amount > st.base_balance
            THEN [ok |-> FALSE, st |-> st]
        ELSE IF action \notin {"buy", "sell"}
            THEN [ok |-> FALSE, st |-> st]
        ELSE [ok |-> TRUE,
              st |-> [st EXCEPT
                  !.quote_balance = quote,
                  !.base_balance = base,
                  !.transaction_history =
                      Append(@, Transaction(ts, action, amount, price, quote, base)),
                  !.balance_history =
                      Append(@, BalanceEntry(ts, quote, base, price))]]

(* SimulationTracker.update_price: one balance entry, no trade. *)
update_price(st, current_price, ts) ==
    [st EXCEPT !.balance_history =
        Append(@, BalanceEntry(ts, st.quote_balance, st.base_balance, current_price))]

----------------------------------------------------------------------------
(* Persistence: the JSON export and the SQLite database *)

Document(st) ==
    [transactions |-> st.transaction_history, balance_history |-> st.balance_history]

(* The export file.  open(path, 'w') truncates it and json.dump then writes
   it piece by piece: while that goes on the file is "torn" (empty or cut
   off).  `replaced` remembers the file the write replaces; no reader sees
   it. *)
NoFile == [status |-> "absent"]

CompleteFile(doc) == [status |-> "complete", doc |-> doc]

TornFile(file) ==
    [status |-> "torn",
     replaced |-> IF file.status = "torn" THEN file.replaced ELSE file]

(* dashboard_utils.load_simulation_data: (balance_history, transactions), or
   (None, None) when the file is missing, does not parse or holds no balance
   history. *)
read_export(file) ==
    IF file.status = "absent" THEN [status |-> "absent"]
    ELSE IF file.status = "torn" THEN [status |-> "unparseable"]
    ELSE IF file.doc.balance_history = <<>> THEN [status |-> "no_history"]
    ELSE [status |-> "ok", doc |-> file.doc]

(* simulation.load_simulation_data: the tracker rebuilt from the JSON file,
   its balances those of the last balance entry; (None, False) when there is
   no file, it does not parse, or it holds no balance history. *)
load_simulation_data(file, ts) ==
    IF file.status # "complete" THEN [ok |-> FALSE]
    ELSE IF file.doc.balance_history = <<>> THEN [ok |-> FALSE]
    ELSE LET bh == file.doc.balance_history
         IN  [ok |-> TRUE,
              quote_balance |-> bh[Len(bh)].quote_balance,
              base_balance |-> bh[Len(bh)].base_balance,
              transaction_history |-> file.doc.transactions,
              balance_history |-> bh]

(* SimulationDatabase: the database file, the symbol's row of table symbols,
   and its rows of balance_history and transactions in insertion order. *)
EmptyDb ==
    [created |-> FALSE, symbol |-> FALSE, initial_balance |-> 0,
     balance_history |-> <<>>, transactions |-> <<>>]

(* get_symbol_id(symbol, create_if_missing=True, ..., initial_balance) *)
get_symbol_id(d, balance) ==
    IF d.symbol THEN d
    ELSE IF balance = 0 THEN d
    ELSE [d EXCEPT !.symbol = TRUE, !.initial_balance = balance]

(* SimulationDatabase.add_balance_entry *)
add_balance_entry(d, ts, quote, base, price, total) ==
    LET d1 == get_symbol_id(d, quote)
    IN  IF ~d1.symbol THEN d1
        ELSE [d1 EXCEPT !.balance_history =
                 Append(@, [timestamp |-> ts, quote_balance |-> quote,
                            base_balance |-> base, price |-> price,
                            total_value_in_quote |-> total])]

(* SimulationDatabase.add_transaction *)
add_transaction(d, tx) ==
    IF ~d.symbol THEN d ELSE [d EXCEPT !.transactions = Append(@, tx)]

(* ORDER BY timestamp DESC, then reverse(): oldest first *)
RECURSIVE InsertByTimestamp(_, _)
InsertByTimestamp(row, rows) ==
    IF rows = <<>> THEN <<row>>
    ELSE IF row.timestamp >= rows[Len(rows)].timestamp THEN Append(rows, row)
    ELSE Append(InsertByTimestamp(row, SubSeq(rows, 1, Len(rows) - 1)), rows[Len(rows)])

RECURSIVE OrderByTimestamp(_)
OrderByTimestamp(rows) ==
    IF rows = <<>> THEN <<>>
    ELSE InsertByTimestamp(rows[Len(rows)], OrderByTimestamp(SubSeq(rows, 1, Len(rows) - 1)))

(* SimulationDatabase.get_balance_history / get_transactions *)
get_balance_history(d) == IF d.symbol THEN OrderByTimestamp(d.balance_history) ELSE <<>>

get_transactions(d) == IF d.symbol THEN OrderByTimestamp(d.transactions) ELSE <<>>

(* SimulationDatabase.export_to_json: [ok, doc]; nothing is written when the
   symbol has no balance history. *)
export_to_json(d) ==
    IF get_balance_history(d) = <<>> THEN [ok |-> FALSE]
    ELSE [ok |-> TRUE,
          doc |-> [transactions |-> get_transactions(d),
                   balance_history |-> get_balance_history(d)]]

(* simulation_db.SimulationTracker.__init__: the cache starts with one
   balance entry (price 0.0), the database is opened (created when missing)
   and the same entry is added to it.  [tracker fields, db] *)
DbSimulationTracker(d, balance, ts) ==
    [quote_balance |-> balance, base_balance |-> 0,
     transaction_history |-> <<>>,
     balance_history |-> <<BalanceEntry(ts, balance, 0, 0)>>,
     db |-> add_balance_entry([d EXCEPT !.created = TRUE], ts, balance, 0, 0, balance)]

(* simulation_db.load_simulation_data.  When the database file exists a
   tracker is constructed for the first symbol (which adds a balance entry of
   the initial balance to the database), then the histories are read back and
   the balances are set from the last entry read.  When there is no database
   file but a JSON export, a tracker is constructed with the first entry's
   balance (which creates the database and adds that entry to it) and the
   histories of the file become its cache; the database does not get them. *)
db_load_simulation_data(d, file, ts) ==
    IF d.created
        THEN IF ~d.symbol THEN [ok |-> FALSE, db |-> d]
             ELSE LET t  == DbSimulationTracker(d, d.initial_balance, ts)
                      bh == get_balance_history(t.db)
                      tx == get_transactions(t.db)
                  IN  [ok |-> TRUE,
                       quote_balance |-> IF bh # <<>> THEN bh[Len(bh)].quote_balance
                                         ELSE t.quote_balance,
                       base_balance |-> IF bh # <<>> THEN bh[Len(bh)].base_balance
                                        ELSE t.base_balance,
                       transaction_history |-> tx,
                       balance_history |-> bh,
                       db |-> t.db]
    ELSE IF file.status # "complete" THEN [ok |-> FALSE, db |-> d]
    ELSE IF file.doc.balance_history = <<>> THEN [ok |-> FALSE, db |-> d]
    ELSE LET bh == file.doc.balance_history
             t  == DbSimulationTracker(d, bh[1].quote_balance, ts)
         IN  [ok |-> TRUE,
              quote_balance |-> bh[Len(bh)].quote_balance,
              base_balance |-> bh[Len(bh)].base_balance,
              transaction_history |-> file.doc.transactions,
              balance_history |-> bh,
              db |-> t.db]

----------------------------------------------------------------------------
(* Position ledger *)

(* update_position_entry_prices: the lots left after selling sell_amount,
   oldest lot first. *)
RECURSIVE ConsumeLots(_, _)
ConsumeLots(lots, remaining_to_sell) ==
    IF lots = <<>> THEN <<>>
    ELSE LET position_amount == Head(lots).amount
             entry_price     == Head(lots).entry_price
         IN  IF remaining_to_sell <= 0
                 THEN <<Head(lots)>> \o ConsumeLots(Tail(lots), remaining_to_sell)
             ELSE IF remaining_to_sell >= position_amount
                 THEN ConsumeLots(Tail(lots), remaining_to_sell - position_amount)
             ELSE <<Lot(position_amount - remaining_to_sell, entry_price)>>
                      \o ConsumeLots(Tail(lots), 0)

(* update_position_entry_prices that keeps a partly sold lot at its full
   amount *)
RECURSIVE ConsumeLotsUnreduced(_, _)
ConsumeLotsUnreduced(lots, remaining_to_sell) ==
    IF lots = <<>> THEN <<>>
    ELSE IF remaining_to_sell <= 0
        THEN <<Head(lots)>> \o ConsumeLotsUnreduced(Tail(lots), remaining_to_sell)
    ELSE IF remaining_to_sell >= Head(lots).amount
        THEN ConsumeLotsUnreduced(Tail(lots), remaining_to_sell - Head(lots).amount)
    ELSE <<Head(lots)>> \o ConsumeLotsUnreduced(Tail(lots), 0)

update_position_entry_prices_unreduced(lots, sell_amount) ==
    ConsumeLotsUnreduced(lots, sell_amount)

(* update_position_entry_prices that consumes the newest lot first *)
RECURSIVE Reverse(_)
Reverse(s) == IF s = <<>> THEN <<>> ELSE Append(Reverse(Tail(s)), Head(s))

update_position_entry_prices_newest_first(lots, sell_amount) ==
    Reverse(ConsumeLots(Reverse(lots), sell_amount))

update_position_entry_prices(lots, sell_amount) == ConsumeLots(lots, sell_amount)

(* The increment factor never scaled down to the remaining increments *)
calculate_position_increment_unscaled(cps, signal_strength) ==
    IF signal_strength < min_signal_strength_for_increment THEN 0
    ELSE (10 + signal_strength) * base_position_size

(* calculate_position_increment: the increment factor, times
   10 * base_position_size (signal_strength is in tenths). *)
calculate_position_increment(cps, signal_strength) ==
    IF signal_strength < min_signal_strength_for_increment THEN 0
    ELSE LET remaining == max_position_increments * base_position_size - cps
         IN  IF remaining < base_position_size
                 THEN (10 + signal_strength) * remaining
                 ELSE (10 + signal_strength) * base_position_size

(* calculate_sell_amount without the branch for very strong signals *)
calculate_sell_amount_no_strong(cps, signal_strength) ==
    LET sell100 == cps * (25 + 5 * signal_strength)
        amount  == IF sell100 < 100 * base_position_size /\ cps >= base_position_size
                       THEN 100 * base_position_size
                   ELSE IF sell100 < 100 * cps THEN 100 * cps
                   ELSE sell100
    IN  Min(amount, 100 * cps)

(* calculate_sell_amount: the amount to sell, times 100 (signal_strength is
   in tenths, so sell_percentage = 0.25 + 0.5 * strength is
   (25 + 5 * signal_strength) / 100). *)
calculate_sell_amount(cps, signal_strength) ==
    IF signal_strength > 8 THEN 100 * cps
    ELSE LET sell100 == cps * (25 + 5 * signal_strength)
             amount  == IF sell100 < 100 * base_position_size /\ cps >= base_position_size
                            THEN 100 * base_position_size
                        ELSE IF sell100 < 100 * cps THEN 100 * cps
                        ELSE sell100
         IN  Min(amount, 100 * cps)

(* The buy amount without the cap on the remaining headroom *)
BuyAmount10_uncapped(cps, signal_strength) ==
    calculate_position_increment(cps, signal_strength)

(* process_signals, lines 54-62: the amount to buy, in tenths of a unit:
   min(base_position_size * increment_size, cap - current_position_size). *)
BuyAmount10(cps, signal_strength) ==
    Min(calculate_position_increment(cps, signal_strength),
        10 * (max_position_size * base_position_size - cps))

----------------------------------------------------------------------------
(* Risk manager *)

(* The take-profit test with a strict comparison *)
TakeProfit_strict(entry_price, current_price) ==
    (current_price - entry_price) * 1000 > 5 * entry_price

(* price_change_pct >= 0.5, with price_change_pct =
   ((current_price - entry_price) / entry_price) * 100 *)
TakeProfit(entry_price, current_price) ==
    (current_price - entry_price) * 1000 >= 5 * entry_price

(* price_change_pct <= -0.3 *)
StopLoss(entry_price, current_price) ==
    (current_price - entry_price) * 1000 <= -3 * entry_price

(* len(df) >= 3 and close[-1] < close[-2] < close[-3] *)
micro_downtrend(frame) ==
    /\ Len(frame) >= 3
    /\ frame[Len(frame)] < frame[Len(frame) - 1]
    /\ frame[Len(frame) - 1] < frame[Len(frame) - 2]

(* The scan without the skip of lots of zero entry price *)
RECURSIVE TriggeredFrom_no_skip(_, _, _)
TriggeredFrom_no_skip(lots, i, current_price) ==
    IF i > Len(lots) THEN <<>>
    ELSE LET entry_price == lots[i].entry_price
             rest        == TriggeredFrom_no_skip(lots, i + 1, current_price)
         IN  IF (current_price - entry_price) * 1000 >= 5 * entry_price THEN <<i>> \o rest
             ELSE IF (current_price - entry_price) * 1000 <= -3 * entry_price
                 THEN <<i>> \o rest
             ELSE rest

(* The take-profit / stop-loss scan: the indices (from 1) of the lots with a
   known entry price that meet a threshold, in list order. *)
RECURSIVE TriggeredFrom(_, _, _)
TriggeredFrom(lots, i, current_price) ==
    IF i > Len(lots) THEN <<>>
    ELSE LET entry_price == lots[i].entry_price
             rest        == TriggeredFrom(lots, i + 1, current_price)
         IN  IF entry_price <= 0 THEN rest
             ELSE IF TakeProfit(entry_price, current_price) THEN <<i>> \o rest
             ELSE IF StopLoss(entry_price, current_price) THEN <<i>> \o rest
             ELSE rest

(* positions_to_close as the handler builds it: the oldest lot first when a
   micro-trend reversal is seen, then the scan's indices. *)
positions_to_close(lots, current_price, frame) ==
    (IF micro_downtrend(frame) /\ Len(lots) > 0 THEN <<1>> ELSE <<>>)
        \o TriggeredFrom(lots, 1, current_price)

(* sorted(positions_to_close, reverse=True) *)
RECURSIVE InsertDescending(_, _)
InsertDescending(x, s) ==
    IF s = <<>> THEN <<x>>
    ELSE IF x >= Head(s) THEN <<x>> \o s
    ELSE <<Head(s)>> \o InsertDescending(x, Tail(s))

RECURSIVE SortedReverse(_)
SortedReverse(s) ==
    IF s = <<>> THEN <<>> ELSE InsertDescending(Head(s), SortedReverse(Tail(s)))

(* The closing loop: for each index in turn, read the lot at that index (an
   IndexError when the list has become shorter), sell its amount, and on an
   accepted sell reduce the position and pop the lot.  [st, raised]. *)
RECURSIVE ClosePositions(_, _, _, _)
ClosePositions(st, idxs, current_price, ts) ==
    IF idxs = <<>> THEN [st |-> st, raised |-> FALSE]
    ELSE LET i == Head(idxs) IN
         IF i > Len(st.position_entry_prices) THEN [st |-> st, raised |-> TRUE]
         ELSE LET position_amount == st.position_entry_prices[i].amount
                  r == execute_trade(st, "sell", position_amount, current_price, ts)
              IN  IF r.ok
                      THEN ClosePositions(
                               [r.st EXCEPT
                                   !.current_position_size = @ - position_amount,
                                   !.position_entry_prices = Pop(@, i)],
                               Tail(idxs), current_price, ts)
                      ELSE ClosePositions(st, Tail(idxs), current_price, ts)

(* handle_high_frequency_risk_management: [st, action_taken, raised] *)
handle_high_frequency_risk_management(st, current_price, frame, ts) ==
    IF st.current_position_size <= 0 \/ st.position_entry_prices = <<>>
        THEN [st |-> st, action_taken |-> FALSE, raised |-> FALSE]
    ELSE LET to_close == positions_to_close(st.position_entry_prices, current_price, frame)
             r == ClosePositions(st, SortedReverse(to_close), current_price, ts)
         IN  [st |-> r.st, action_taken |-> to_close # <<>>, raised |-> r.raised]

----------------------------------------------------------------------------
(* Signal handling *)

(* The buy branch that grows the position without recording the lot *)
ProcessBuy_no_lot(st, current_price, ts) ==
    LET cps   == st.current_position_size
        buy10 == BuyAmount10(cps, hf_signal_strength)
        buy_amount == buy10 \div 10
    IN  IF cps < max_position_size * base_position_size /\ buy10 >= base_position_size
            THEN LET r == execute_trade(st, "buy", buy_amount, current_price, ts)
                 IN  IF r.ok
                         THEN [r.st EXCEPT !.current_position_size = @ + buy_amount]
                         ELSE st
            ELSE st

(* process_signals, the buy branch (lines 46-86) *)
ProcessBuy(st, current_price, ts) ==
    LET cps   == st.current_position_size
        buy10 == BuyAmount10(cps, hf_signal_strength)
        buy_amount == buy10 \div 10
    IN  IF cps < max_position_size * base_position_size /\ buy10 >= base_position_size
            THEN LET r == execute_trade(st, "buy", buy_amount, current_price, ts)
                 IN  IF r.ok
                         THEN [r.st EXCEPT
                                  !.current_position_size = @ + buy_amount,
                                  !.position_entry_prices =
                                      Append(@, Lot(buy_amount, current_price))]
                         ELSE st
            ELSE st

(* process_signals, the sell branch (lines 89-120) *)
ProcessSell(st, current_price, ts) ==
    IF st.current_position_size > 0
        THEN LET sell_amount == Min(st.current_position_size, base_position_size)
                 r == execute_trade(st, "sell", sell_amount, current_price, ts)
             IN  IF r.ok
                     THEN [r.st EXCEPT
                              !.current_position_size = @ - sell_amount,
                              !.position_entry_prices =
                                  update_position_entry_prices(@, sell_amount)]
                     ELSE st
        ELSE st

(* process_signals that goes on to the signal after a risk action *)
process_signals_no_preempt(st, frame, current_price, signal, ts) ==
    LET risk == IF st.current_position_size > 0
                    THEN handle_high_frequency_risk_management(st, current_price, frame, ts)
                    ELSE [st |-> st, action_taken |-> FALSE, raised |-> FALSE]
    IN  IF risk.raised THEN [st |-> risk.st, ret |-> FALSE, raised |-> TRUE]
        ELSE IF signal = 1
            THEN [st |-> ProcessBuy(risk.st, current_price, ts), ret |-> TRUE, raised |-> FALSE]
        ELSE IF signal = -1
            THEN [st |-> ProcessSell(risk.st, current_price, ts), ret |-> TRUE, raised |-> FALSE]
        ELSE [st |-> risk.st, ret |-> risk.action_taken, raised |-> FALSE]

(* process_signals: [st, ret, raised]; ret is its return value (True when a
   risk action or a signal was handled). *)
process_signals(st, frame, current_price, signal, ts) ==
    LET risk == IF st.current_position_size > 0
                    THEN handle_high_frequency_risk_management(st, current_price, frame, ts)
                    ELSE [st |-> st, action_taken |-> FALSE, raised |-> FALSE]
    IN  IF risk.raised THEN [st |-> risk.st, ret |-> FALSE, raised |-> TRUE]
        ELSE IF risk.action_taken THEN [st |-> risk.st, ret |-> TRUE, raised |-> FALSE]
        ELSE IF signal = 1
            THEN [st |-> ProcessBuy(risk.st, current_price, ts), ret |-> TRUE, raised |-> FALSE]
        ELSE IF signal = -1
            THEN [st |-> ProcessSell(risk.st, current_price, ts), ret |-> TRUE, raised |-> FALSE]
        ELSE [st |-> risk.st, ret |-> FALSE, raised |-> FALSE]

(* handle_market_update that takes a missing frame for a buy signal at the
   price 1000 *)
MarketUpdate_blind(st, frame, signal, ts) ==
    IF frame = <<>>
        THEN [st |-> ProcessBuy(st, 1000, ts), outcome |-> "no_data"]
    ELSE LET current_price == frame[Len(frame)]
             r == process_signals(st, frame, current_price, signal, ts)
         IN  IF r.raised THEN [st |-> r.st, outcome |-> "error"]
             ELSE [st |-> update_price(r.st, current_price, ts),
                   outcome |-> IF r.ret THEN "handled" ELSE "idle"]

(* One iteration of handle_market_update.  When analyze_market returns None
   or an empty frame the iteration warns, sleeps and continues.  Otherwise
   it processes the signals, then records the price; an exception out of
   process_signals is caught by the loop and the rest of the iteration is
   skipped. *)
MarketUpdate(st, frame, signal, ts) ==
    IF frame = <<>>
        THEN [st |-> st, outcome |-> "no_data"]
    ELSE LET current_price == frame[Len(frame)]
             r == process_signals(st, frame, current_price, signal, ts)
         IN  IF r.raised THEN [st |-> r.st, outcome |-> "error"]
             ELSE [st |-> update_price(r.st, current_price, ts),
                   outcome |-> IF r.ret THEN "handled" ELSE "idle"]

----------------------------------------------------------------------------
(* The control loop of one symbol *)

Cur == State(current_position_size, position_entry_prices, quote_balance,
             base_balance, transaction_history, balance_history)

SetTracker(st) ==
    /\ current_position_size' = st.current_position_size
    /\ position_entry_prices' = st.position_entry_prices
    /\ quote_balance' = st.quote_balance
    /\ base_balance' = st.base_balance
    /\ transaction_history' = st.transaction_history
    /\ balance_history' = st.balance_history

StoreVars == <<backend, data_file, db, snapshot>>

(* SimulationTracker._save_data as execute_trade and update_price call it
   after every append: the whole of both histories is written to
   simulation_data.json. *)
Saved(st) ==
    IF st.transaction_history # transaction_history
           \/ st.balance_history # balance_history
        THEN CompleteFile(Document(st))
        ELSE data_file

SetState(st) ==
    /\ SetTracker(st)
    /\ data_file' = Saved(st)
    /\ UNCHANGED <<backend, db, snapshot, ProcVars>>

NoCall == [op |-> "none"]

(* A session that starts fresh: no position, the initial balance. *)
NewSession(ts) ==
    LET t == SimulationTracker(initial_balance, ts)
    IN  State(0, <<>>, t.quote_balance, t.base_balance,
              t.transaction_history, t.balance_history)

FreshSession == NewSession(0)

(* A session resumed from one stored SessionGap seconds earlier that held one
   base unit: the balances and histories are the stored ones, the position is
   one lot of unknown (zero) entry price. *)
ResumedSession ==
    LET t == execute_trade(NewSession(0 - SessionGap), "buy", base_position_size,
                           1000, 0 - SessionGap).st
    IN  [t EXCEPT !.current_position_size = t.base_balance,
                  !.position_entry_prices = <<Lot(t.base_balance, 0)>>]

Init ==
    /\ \E st \in {FreshSession, ResumedSession} :
          /\ current_position_size = st.current_position_size
          /\ position_entry_prices = st.position_entry_prices
          /\ quote_balance = st.quote_balance
          /\ base_balance = st.base_balance
          /\ transaction_history = st.transaction_history
          /\ balance_history = st.balance_history
          /\ data_file = IF st.balance_history = FreshSession.balance_history
                             THEN NoFile ELSE CompleteFile(Document(st))
    /\ now = 0
    /\ ticks = 0
    /\ df = <<>>
    /\ position_change = 0
    /\ outcome = "start"
    /\ call = NoCall
    /\ backend = "json"
    /\ db = EmptyDb
    /\ snapshot = [status |-> "none"]
    /\ NoProcess

(* handle_market_update, one iteration with market data *)
Tick ==
    /\ ticks < MaxTicks
    /\ \E p \in Prices, shape \in Shapes, signal \in Signals :
          LET frame == Frame(p, shape)
              r == MarketUpdate(Cur, frame, signal, now + CHECK_INTERVAL)
          IN  /\ SetState(r.st)
              /\ df' = frame
              /\ position_change' = signal
              /\ outcome' = r.outcome
    /\ now' = now + CHECK_INTERVAL
    /\ ticks' = ticks + 1
    /\ UNCHANGED call

(* handle_market_update, one iteration in which the fetch returned nothing:
   "Could not fetch market data. Retrying...", sleep, continue. *)
FetchFailed ==
    /\ ticks < MaxTicks
    /\ LET r == MarketUpdate(Cur, <<>>, 0, now + CHECK_INTERVAL)
       IN  /\ SetState(r.st)
           /\ outcome' = r.outcome
    /\ df' = <<>>
    /\ position_change' = 0
    /\ now' = now + CHECK_INTERVAL
    /\ ticks' = ticks + 1
    /\ UNCHANGED call

Next == Tick \/ FetchFailed

Spec == Init /\ [][Next]_vars

----------------------------------------------------------------------------
(* The control loop with a store that may refuse a write.  _save_data has no
   exception handler: when a write of the CSV files or of
   simulation_data.json fails, the exception leaves execute_trade or
   update_price after the in-memory appends, passes through process_signals
   and is caught by the loop's except clause. *)

(* execute_trade whose _save_data raises: a rejected trade returns False
   before the save; an accepted one has updated the balances and both
   histories when the exception leaves it.  [st, raised] *)
execute_trade_save_fails(st, action, amount, price, ts) ==
    LET r == execute_trade(st, action, amount, price, ts)
    IN  [st |-> r.st, raised |-> r.ok]

(* The closing loop of the risk manager over such a tracker *)
RECURSIVE ClosePositions_save_fails(_, _, _, _)
ClosePositions_save_fails(st, idxs, current_price, ts) ==
    IF idxs = <<>> THEN [st |-> st, raised |-> FALSE]
    ELSE LET i == Head(idxs) IN
         IF i > Len(st.position_entry_prices) THEN [st |-> st, raised |-> TRUE]
         ELSE LET position_amount == st.position_entry_prices[i].amount
                  r == execute_trade_save_fails(st, "sell", position_amount,
                                                current_price, ts)
              IN  IF r.raised THEN r
                  ELSE ClosePositions_save_fails(st, Tail(idxs), current_price, ts)

(* process_signals over such a tracker: [st, ret, raised] *)
process_signals_save_fails(st, frame, current_price, signal, ts) ==
    LET cps     == st.current_position_size
        lots    == st.position_entry_prices
        checked == cps > 0 /\ lots # <<>>
        to_close == IF checked THEN positions_to_close(lots, current_price, frame)
                    ELSE <<>>
        risk    == ClosePositions_save_fails(st, SortedReverse(to_close), current_price, ts)
        buy10   == BuyAmount10(cps, hf_signal_strength)
    IN  IF risk.raised THEN [st |-> risk.st, ret |-> FALSE, raised |-> TRUE]
        ELSE IF to_close # <<>> THEN [st |-> risk.st, ret |-> TRUE, raised |-> FALSE]
        ELSE IF signal = 1
            THEN IF cps < max_position_size * base_position_size
                        /\ buy10 >= base_position_size
                     THEN LET r == execute_trade_save_fails(st, "buy", buy10 \div 10,
                                                            current_price, ts)
                          IN  [st |-> r.st, ret |-> ~r.raised, raised |-> r.raised]
                     ELSE [st |-> st, ret |-> TRUE, raised |-> FALSE]
        ELSE IF signal = -1
            THEN IF cps > 0
                     THEN LET r == execute_trade_save_fails(
                                       st, "sell", Min(cps, base_position_size),
                                       current_price, ts)
                          IN  [st |-> r.st, ret |-> ~r.raised, raised |-> r.raised]
                     ELSE [st |-> st, ret |-> TRUE, raised |-> FALSE]
        ELSE [st |-> st, ret |-> FALSE, raised |-> FALSE]

(* One iteration of handle_market_update over such a tracker.  When no trade
   is accepted the save that fails is the one of update_price, after its
   balance entry has been appended. *)
MarketUpdate_save_fails(st, frame, signal, ts) ==
    LET current_price == frame[Len(frame)]
        r == process_signals_save_fails(st, frame, current_price, signal, ts)
    IN  IF r.raised THEN [st |-> r.st, outcome |-> "save_error_in_trade"]
        ELSE [st |-> update_price(r.st, current_price, ts),
              outcome |-> "save_error_in_update"]

(* handle_market_update, one iteration with market data during which the
   store refuses the write.  The file is left as it was (the failure came
   before simulation_data.json was opened) or cut off. *)
TickSaveFails ==
    /\ ticks < MaxTicks
    /\ \E p \in Prices, shape \in Shapes, signal \in Signals :
          LET frame == Frame(p, shape)
              r == MarketUpdate_save_fails(Cur, frame, signal, now + CHECK_INTERVAL)
          IN  /\ SetTracker(r.st)
              /\ df' = frame
              /\ position_change' = signal
              /\ outcome' = r.outcome
    /\ data_file' \in {data_file, TornFile(data_file)}
    /\ now' = now + CHECK_INTERVAL
    /\ ticks' = ticks + 1
    /\ UNCHANGED <<call, backend, db, snapshot, ProcVars>>

NextFault == Tick \/ FetchFailed \/ TickSaveFails

SpecFault == Init /\ [][NextFault]_vars

----------------------------------------------------------------------------
(* Unit harness: the ledger and tracker operations called directly, once,
   on a bot state drawn from a bounded set. *)

LotChoices == {Lot(4, 1000), Lot(10, 999), Lot(18, 0)}

RECURSIVE LotSeqs(_)
LotSeqs(n) ==
    IF n = 0 THEN {<<>>}
    ELSE LotSeqs(n - 1) \cup
         {Append(s, l) : s \in {t \in LotSeqs(n - 1) : Len(t) = n - 1}, l \in LotChoices}

UnitQuoteBalances == {initial_balance, 5000000}
UnitBaseBalances == {0, 10, 40}
UnitAmounts == {0, 4, 5, 10, 30}
Strengths == 0 .. 10

InitUnit ==
    /\ position_entry_prices \in LotSeqs(MaxLots)
    /\ current_position_size = SumAmounts(position_entry_prices)
    /\ current_position_size <= max_position_size * base_position_size
    /\ quote_balance \in UnitQuoteBalances
    /\ base_balance \in UnitBaseBalances
    /\ transaction_history = <<>>
    /\ balance_history = SimulationTracker(quote_balance, 0).balance_history
    /\ now = 0
    /\ ticks = 0
    /\ df = <<>>
    /\ position_change = 0
    /\ outcome = "start"
    /\ call = NoCall
    /\ backend = "json"
    /\ data_file = NoFile
    /\ db = EmptyDb
    /\ snapshot = [status |-> "none"]
    /\ NoProcess

UnitFrame == <<now, ticks, df, position_change, outcome>>

(* sim_tracker.execute_trade(action, amount, price) *)
CallExecuteTrade ==
    /\ call = NoCall
    /\ \E action \in {"buy", "sell", "hold"}, amount \in UnitAmounts, price \in Prices :
          LET r == execute_trade(Cur, action, amount, price, now)
          IN  /\ SetState(r.st)
              /\ call' = [op |-> "execute_trade", action |-> action, amount |-> amount,
                          price |-> price, before |-> Cur, ok |-> r.ok]
    /\ UNCHANGED UnitFrame

(* process_signals(bot, df, current_price) on a one-candle frame *)
CallProcessSignals ==
    /\ call = NoCall
    /\ \E price \in Prices, shape \in Shapes, signal \in Signals :
          LET r == process_signals(Cur, Frame(price, shape), price, signal, now)
          IN  /\ SetState(r.st)
              /\ call' = [op |-> "process_signals", signal |-> signal, price |-> price,
                          frame |-> Frame(price, shape), before |-> Cur,
                          ret |-> r.ret, raised |-> r.raised]
    /\ UNCHANGED UnitFrame

(* update_position_entry_prices(bot, sell_amount) *)
CallUpdateEntryPrices ==
    /\ call = NoCall
    /\ \E sell_amount \in 0 .. (current_position_size + 2) :
          /\ position_entry_prices' =
                 update_position_entry_prices(position_entry_prices, sell_amount)
          /\ call' = [op |-> "update_position_entry_prices", sell_amount |-> sell_amount,
                      before |-> Cur]
    /\ UNCHANGED <<current_position_size, quote_balance, base_balance,
                   transaction_history, balance_history>>
    /\ UNCHANGED UnitFrame
    /\ UNCHANGED <<StoreVars, ProcVars>>

(* calculate_position_increment(bot, signal_strength) and the buy amount
   process_signals derives from it *)
CallPositionIncrement ==
    /\ call = NoCall
    /\ \E strength \in Strengths :
          call' = [op |-> "calculate_position_increment", strength |-> strength,
                   before |-> Cur,
                   increment10 |->
                       calculate_position_increment(current_position_size, strength),
                   buy10 |-> BuyAmount10(current_position_size, strength)]
    /\ UNCHANGED <<current_position_size, position_entry_prices, quote_balance,
                   base_balance, transaction_history, balance_history>>
    /\ UNCHANGED UnitFrame
    /\ UNCHANGED <<StoreVars, ProcVars>>

(* calculate_sell_amount(bot, signal_strength) *)
CallSellAmount ==
    /\ call = NoCall
    /\ \E strength \in Strengths :
          call' = [op |-> "calculate_sell_amount", strength |-> strength,
                   before |-> Cur,
                   sell100 |-> calculate_sell_amount(current_position_size, strength)]
    /\ UNCHANGED <<current_position_size, position_entry_prices, quote_balance,
                   base_balance, transaction_history, balance_history>>
    /\ UNCHANGED UnitFrame
    /\ UNCHANGED <<StoreVars, ProcVars>>

NextUnit ==
    \/ CallExecuteTrade
    \/ CallProcessSignals
    \/ CallUpdateEntryPrices
    \/ CallPositionIncrement
    \/ CallSellAmount

SpecUnit == InitUnit /\ [][NextUnit]_vars

----------------------------------------------------------------------------
(* The signal strength estimator, called on an indicator snapshot drawn from
   a bounded set.  Strengths are in hundredths, quotients rounded down; an
   indicator the frame does not have is None, a value no indicator takes. *)

None == 0 - 1

Has(latest, cols) == \A c \in cols : latest[c] # None

(* min(abs(spread) / full, 1.0) * sign, then max(0, .), for a spread given as
   the fraction num / den in percent *)
SpreadStrength(num, den, full) ==
    IF num > 0 THEN Min((num * 100 * 100) \div (den * full), 100) ELSE 0

(* RSI below 30 scales from 0 at 30 to 1.0 at 0 *)
RsiStrength(rsi) == IF rsi < 30 THEN ((30 - rsi) * 100) \div 30 ELSE 0

(* bb_strength = 1.0 - min(bb_distance, 1.0) *)
BollingerStrength(close, bb_lower, bb_upper) ==
    LET bb_distance == ((close - bb_lower) * 100) \div (bb_upper - bb_lower)
    IN  100 - Min(bb_distance, 100)

RECURSIVE SumSeq(_)
SumSeq(q) == IF q = <<>> THEN 0 ELSE Head(q) + SumSeq(Tail(q))

(* calculate_signal_strength(df, use_enhanced_strategy, use_scalping_strategy):
   latest is df.iloc[-1], prev_close the close of df.iloc[-2], len is
   len(df). *)
calculate_signal_strength(len, latest, prev_close, strategy) ==
    IF len < 2 THEN 0
    ELSE LET ma == IF Has(latest, {"short_ma", "long_ma"})
                       THEN <<SpreadStrength(latest.short_ma - latest.long_ma,
                                             latest.long_ma, 5)>>
                       ELSE <<>>
             scalping ==
                 (IF Has(latest, {"ema3", "ema8"})
                      THEN <<SpreadStrength(latest.ema3 - latest.ema8, latest.ema8, 3)>>
                      ELSE <<>>)
                 \o (IF Has(latest, {"fast_rsi"})
                         THEN <<RsiStrength(latest.fast_rsi)>> ELSE <<>>)
                 \o (IF Has(latest, {"stoch_k", "stoch_d"})
                         THEN <<IF latest.stoch_k > latest.stoch_d
                                    THEN Min(((latest.stoch_k - latest.stoch_d) * 100)
                                                 \div 20, 100)
                                    ELSE 0>>
                         ELSE <<>>)
             enhanced ==
                 (IF Has(latest, {"rsi"}) THEN <<RsiStrength(latest.rsi)>> ELSE <<>>)
                 \o (IF Has(latest, {"macd", "macd_signal", "close"})
                         THEN <<IF latest.macd > latest.macd_signal
                                    THEN Min(((latest.macd - latest.macd_signal)
                                                  * 1000 * 100) \div (latest.close * 2), 100)
                                    ELSE 0>>
                         ELSE <<>>)
             bb == IF Has(latest, {"bb_lower", "bb_upper", "close"})
                      /\ latest.bb_upper > latest.bb_lower
                       THEN <<BollingerStrength(latest.close, latest.bb_lower,
                                                latest.bb_upper)>>
                       ELSE <<>>
             strength_components ==
                 ma \o (IF strategy = "scalping" THEN scalping
                        ELSE IF strategy = "enhanced" THEN enhanced
                        ELSE <<>>) \o bb
             price_momentum == IF latest.close > prev_close THEN 100 ELSE 0
             all == IF len >= 3 THEN Append(strength_components, price_momentum)
                    ELSE strength_components
         IN  IF strength_components = <<>> THEN 0
             ELSE SumSeq(all) \div Len(all)

Snapshots ==
    [short_ma : {None, 980, 1030}, long_ma : {1000},
     ema3 : {None, 1010}, ema8 : {1000},
     fast_rsi : {None, 15}, stoch_k : {None, 30}, stoch_d : {20},
     rsi : {None, 15, 50}, macd : {None, 3}, macd_signal : {1},
     close : {900, 990, 1000, 1070},
     bb_lower : {None, 980}, bb_upper : {None, 1020}]

Strategies == {"scalping", "enhanced", "standard"}

FrameLengths == {1, 2, 3}

StrengthFrame == <<current_position_size, position_entry_prices, quote_balance,
                   base_balance, transaction_history, balance_history, now, ticks,
                   df, position_change, outcome, StoreVars, ProcVars>>

InitStrength ==
    /\ \E latest \in Snapshots, strategy \in Strategies, len \in FrameLengths :
          call = [op |-> "frame", latest |-> latest, strategy |-> strategy, len |-> len]
    /\ current_position_size = 0
    /\ position_entry_prices = <<>>
    /\ quote_balance = initial_balance
    /\ base_balance = 0
    /\ transaction_history = <<>>
    /\ balance_history = <<>>
    /\ now = 0
    /\ ticks = 0
    /\ df = <<>>
    /\ position_change = 0
    /\ outcome = "start"
    /\ backend = "json"
    /\ data_file = NoFile
    /\ db = EmptyDb
    /\ snapshot = [status |-> "none"]
    /\ NoProcess

(* calculate_signal_strength(df, ...) on the frame, the previous close 1000 *)
CallSignalStrength ==
    /\ call.op = "frame"
    /\ call' = [op |-> "calculate_signal_strength", latest |-> call.latest,
                strategy |-> call.strategy, len |-> call.len,
                strength100 |-> calculate_signal_strength(call.len, call.latest, 1000,
                                                          call.strategy)]
    /\ UNCHANGED StrengthFrame

NextStrength == CallSignalStrength

SpecStrength == InitStrength /\ [][NextStrength]_vars

----------------------------------------------------------------------------
(* The tracker and its store over restarts, with a reader of the export.
   One symbol, one data directory; the backend is the JSON tracker of
   trading/simulation.py or the database tracker of trading/simulation_db.py. *)

MaxStoreOps == 3

DbEvery == 10
ExportEvery == 50

StorePrices == {1000, 1005}
StoreAges == {0, 8, 48}
Backends == {"json", "sqlite"}

(* execute_trade with what it persists: [ok, st, db, appended, export];
   export says that simulation_data.json is rewritten. *)
store_execute_trade(bk, st, d, action, amount, price, ts) ==
    LET r == execute_trade(st, action, amount, price, ts)
    IN  IF ~r.ok
            THEN [ok |-> FALSE, st |-> st, db |-> d, appended |-> FALSE, export |-> FALSE]
        ELSE IF bk = "json"
            THEN [ok |-> TRUE, st |-> r.st, db |-> d, appended |-> TRUE, export |-> TRUE]
        ELSE LET d1 == add_transaction(d, Last(r.st.transaction_history))
                 d2 == add_balance_entry(d1, ts, r.st.quote_balance, r.st.base_balance,
                                         price, Last(r.st.balance_history).total_value_in_quote)
             IN  [ok |-> TRUE, st |-> r.st, db |-> d2,
                  appended |-> d2.symbol, export |-> export_to_json(d2).ok]

(* update_price with what it persists.  The database tracker adds the entry
   to the database when the cache length is a multiple of 10 and rewrites the
   export when it is a multiple of 50. *)
store_update_price(bk, st, d, current_price, ts) ==
    LET st1 == update_price(st, current_price, ts)
        n   == Len(st1.balance_history)
    IN  IF bk = "json"
            THEN [st |-> st1, db |-> d, appended |-> TRUE, export |-> TRUE]
        ELSE IF n % DbEvery = 0
            THEN LET d1 == add_balance_entry(d, ts, st1.quote_balance, st1.base_balance,
                                             current_price,
                                             Last(st1.balance_history).total_value_in_quote)
                 IN  [st |-> st1, db |-> d1, appended |-> d1.symbol,
                      export |-> n % ExportEvery = 0 /\ export_to_json(d1).ok]
        ELSE [st |-> st1, db |-> d, appended |-> FALSE, export |-> FALSE]

(* The document a write of the export puts into the file *)
ExportDoc(bk, st, d) == IF bk = "json" THEN Document(st) ELSE export_to_json(d).doc

(* CryptoTradingBot.__init__, lines 63-80: the tracker is the loaded one when
   load_simulation_data succeeds, else a new one with the initial balance.
   [loaded, st, db] *)
store_construct(bk, d, file, ts) ==
    IF bk = "json"
        THEN LET l == load_simulation_data(file, ts)
                 t == SimulationTracker(initial_balance, ts)
             IN  IF l.ok
                     THEN [loaded |-> TRUE, db |-> d,
                           st |-> State(0, <<>>, l.quote_balance, l.base_balance,
                                        l.transaction_history, l.balance_history)]
                     ELSE [loaded |-> FALSE, db |-> d,
                           st |-> State(0, <<>>, t.quote_balance, t.base_balance,
                                        t.transaction_history, t.balance_history)]
        ELSE LET l == db_load_simulation_data(d, file, ts)
                 t == DbSimulationTracker(d, initial_balance, ts)
             IN  IF l.ok
                     THEN [loaded |-> TRUE, db |-> l.db,
                           st |-> State(0, <<>>, l.quote_balance, l.base_balance,
                                        l.transaction_history, l.balance_history)]
                     ELSE [loaded |-> FALSE, db |-> t.db,
                           st |-> State(0, <<>>, t.quote_balance, t.base_balance,
                                        t.transaction_history, t.balance_history)]

(* A session started SessionGap seconds ago that has seen k price updates
   since (update_price(1000), one a second) and no trade, every write
   finished: the cache holds the initial entry and one entry per update; the
   database holds the initial entry and every DbEvery-th entry of the cache;
   the export was last rewritten at the last multiple of ExportEvery (SQLite)
   or at the last update (JSON). *)
AgedHistory(bk, k) ==
    [i \in 1..(k + 1) |->
        IF i > 1 THEN BalanceEntry(i - 1 - SessionGap, initial_balance, 0, 1000)
        ELSE IF bk = "json"
            THEN SimulationTracker(initial_balance, 0 - SessionGap).balance_history[1]
        ELSE DbSimulationTracker(EmptyDb, initial_balance, 0 - SessionGap).balance_history[1]]

AgedRows(n) ==
    <<AgedHistory("sqlite", 0)[1]>>
        \o [j \in 1..(n \div DbEvery) |-> AgedHistory("sqlite", n)[j * DbEvery]]

AgedSession(bk, k) ==
    LET st == State(0, <<>>, initial_balance, 0, <<>>, AgedHistory(bk, k))
        exported == ((k + 1) \div ExportEvery) * ExportEvery
    IN  IF bk = "json"
            THEN [st |-> st, db |-> EmptyDb,
                  data_file |-> IF k = 0 THEN NoFile ELSE CompleteFile(Document(st))]
            ELSE [st |-> st,
                  db |-> [created |-> TRUE, symbol |-> TRUE,
                          initial_balance |-> initial_balance,
                          balance_history |-> AgedRows(k + 1),
                          transactions |-> <<>>],
                  data_file |-> IF exported = 0 THEN NoFile
                                ELSE CompleteFile([transactions |-> <<>>,
                                                   balance_history |-> AgedRows(exported)])]

StoreNoCall == [op |-> "none", session |-> 1]

StoreFrame == <<current_position_size, position_entry_prices, df, position_change, outcome,
               ProcVars>>

InitStore ==
    /\ \E bk \in Backends, age \in StoreAges :
          LET s == AgedSession(bk, age)
          IN  /\ backend = bk
              /\ quote_balance = s.st.quote_balance
              /\ base_balance = s.st.base_balance
              /\ transaction_history = s.st.transaction_history
              /\ balance_history = s.st.balance_history
              /\ db = s.db
              /\ data_file = s.data_file
    /\ current_position_size = 0
    /\ position_entry_prices = <<>>
    /\ now = 0
    /\ ticks = 0
    /\ df = <<>>
    /\ position_change = 0
    /\ outcome = "start"
    /\ call = StoreNoCall
    /\ snapshot = [status |-> "none"]
    /\ NoProcess

(* sim_tracker.execute_trade(action, base_position_size, price), up to the
   point where the export has been opened for writing *)
StoreExecuteTrade ==
    /\ ticks < MaxStoreOps
    /\ data_file.status # "torn"
    /\ \E action \in {"buy", "sell"}, price \in StorePrices :
          LET r == store_execute_trade(backend, Cur, db, action, base_position_size,
                                       price, now + 1)
          IN  /\ SetTracker(r.st)
              /\ db' = r.db
              /\ data_file' = IF r.export THEN TornFile(data_file) ELSE data_file
              /\ call' = [op |-> "execute_trade", session |-> call.session,
                          ok |-> r.ok, appended |-> r.appended]
    /\ now' = now + 1
    /\ ticks' = ticks + 1
    /\ UNCHANGED <<backend, snapshot, df, position_change, outcome, ProcVars>>

(* sim_tracker.update_price(current_price), up to the point where the export,
   if it is rewritten, has been opened for writing *)
StoreUpdatePrice ==
    /\ ticks < MaxStoreOps
    /\ data_file.status # "torn"
    /\ \E price \in StorePrices :
          LET r == store_update_price(backend, Cur, db, price, now + 1)
          IN  /\ SetTracker(r.st)
              /\ db' = r.db
              /\ data_file' = IF r.export THEN TornFile(data_file) ELSE data_file
              /\ call' = [op |-> "update_price", session |-> call.session,
                          ok |-> TRUE, appended |-> r.appended]
    /\ now' = now + 1
    /\ ticks' = ticks + 1
    /\ UNCHANGED <<backend, snapshot, df, position_change, outcome, ProcVars>>

(* json.dump has written the whole document and the file is closed *)
StoreFinishWrite ==
    /\ data_file.status = "torn"
    /\ data_file' = CompleteFile(ExportDoc(backend, Cur, db))
    /\ UNCHANGED <<quote_balance, base_balance, transaction_history, balance_history,
                   now, ticks, call, backend, db, snapshot>>
    /\ UNCHANGED StoreFrame

(* The process is stopped between two operations and started again: the bot
   is constructed anew and loads the symbol's session.  A deployment of the
   JSON tracker may come back with the database tracker, which then finds the
   JSON export and no database. *)
StoreRestart ==
    /\ ticks < MaxStoreOps
    /\ data_file.status # "torn"
    /\ \E bk \in Backends :
          /\ backend = "sqlite" => bk = "sqlite"
          /\ LET c == store_construct(bk, db, data_file, now + 1)
             IN  /\ SetTracker(c.st)
                 /\ db' = c.db
                 /\ backend' = bk
                 /\ call' = [op |-> "load", session |-> call.session + 1,
                             loaded |-> c.loaded,
                             after_append |-> call.op \in {"execute_trade", "update_price"}
                                                  /\ call.appended,
                             before |-> Cur]
    /\ now' = now + 1
    /\ ticks' = ticks + 1
    /\ UNCHANGED <<data_file, snapshot, df, position_change, outcome, ProcVars>>

(* The dashboard reads the export, at any moment *)
StoreRead ==
    /\ snapshot' = read_export(data_file)
    /\ UNCHANGED <<quote_balance, base_balance, transaction_history, balance_history,
                   now, ticks, call, backend, data_file, db>>
    /\ UNCHANGED StoreFrame

NextStore ==
    \/ StoreExecuteTrade
    \/ StoreUpdatePrice
    \/ StoreFinishWrite
    \/ StoreRestart
    \/ StoreRead

SpecStore == InitStore /\ [][NextStore]_vars

----------------------------------------------------------------------------
(* The process of main.py: one bot per symbol, each bot's run_bot submitted
   to a ThreadPoolExecutor, the main thread waiting for Ctrl-C. *)

(* Iterations per loop in which market data arrives (later fetches of the
   loop return nothing) and the largest --max-threads *)
MaxLoopTicks == 2
MaxThreads == 2

SymbolLists == {<<"BTC/USDT">>, <<"BTC/USDT", "ETH/USDT">>}
ProcSymbols == {"BTC/USDT", "ETH/USDT"}
ProcPrices == {1000, 1005}

Range(seq) == {seq[i] : i \in DOMAIN seq}

Put(f, k, v) == [x \in DOMAIN f \cup {k} |-> IF x = k THEN v ELSE f[x]]

(* The directory of load_simulation_data() and SimulationTracker(...) in
   CryptoTradingBot.__init__: neither call passes data_dir, so it is the
   default of both, whatever the symbol. *)
DefaultDir == "simulation_data"

bot_data_dir(symbol) == DefaultDir

(* The directories main creates or the bots use *)
DataDirs(syms) == {DefaultDir} \cup Range(syms)

(* simulation_data/simulation_data.json at the start of the process: absent,
   or left by an earlier run *)
PriorExports == {NoFile, AgedSession("json", 1).data_file}

(* ThreadPoolExecutor(max_workers=min(len(symbols), args.max_threads)) *)
pool_size == Min(Len(symbols), max_threads)

(* A task a worker is running is at the top of an iteration of run_bot
   ("running") or in the time.sleep that ends one ("sleeping"). *)
Running == {s \in DOMAIN loop : loop[s] \in {"running", "sleeping"}}

Unfinished == {s \in DOMAIN loop : loop[s] \in {"queued", "running", "sleeping"}}

(* One iteration of run_bot on a frame with data: the price is recorded,
   then a buy signal buys self.amount when not in position and a sell signal
   sells it when in position.  in_position is base_balance > 0 at the start
   of run_bot and follows the trades from then on. *)
run_bot_iteration(st, current_price, signal, ts) ==
    LET st1 == update_price(st, current_price, ts)
        in_position == st.base_balance > 0
        buy  == execute_trade(st1, "buy", base_position_size, current_price, ts)
        sell == execute_trade(st1, "sell", base_position_size, current_price, ts)
    IN  IF signal = 1 /\ ~in_position /\ buy.ok THEN buy.st
        ELSE IF signal = -1 /\ in_position /\ sell.ok THEN sell.st
        ELSE st1

BotVars == <<current_position_size, position_entry_prices, quote_balance, base_balance,
             transaction_history, balance_history, now, ticks, df, position_change,
             outcome, call, backend, data_file, db, snapshot, WebVars>>

InitProc ==
    /\ NoWeb
    /\ \E syms \in SymbolLists, mt \in 1..MaxThreads, prior \in PriorExports :
          /\ symbols = syms
          /\ max_threads = mt
          /\ files = [d \in DataDirs(syms) |-> IF d = DefaultDir THEN prior ELSE NoFile]
          /\ loop = [s \in Range(syms) |-> "unsubmitted"]
          /\ loop_ticks = [s \in Range(syms) |-> 0]
          /\ reports = [s \in Range(syms) |-> 0]
    /\ main = "submitting"
    /\ active_bots = <<>>
    /\ bots = <<>>
    /\ stop = FALSE
    /\ step = [by |-> "main", what |-> "start"]
    /\ clock = 0
    /\ current_position_size = 0
    /\ position_entry_prices = <<>>
    /\ quote_balance = 0
    /\ base_balance = 0
    /\ transaction_history = <<>>
    /\ balance_history = <<>>
    /\ now = 0
    /\ ticks = 0
    /\ df = <<>>
    /\ position_change = 0
    /\ outcome = "start"
    /\ call = NoCall
    /\ backend = "json"
    /\ data_file = NoFile
    /\ db = EmptyDb
    /\ snapshot = [status |-> "none"]

(* main, one turn of `for symbol in symbols`: the bot is constructed (it
   loads the session of its data directory or starts a new one), appended to
   active_bots, and its run_bot is submitted to the pool. *)
MainSubmit ==
    /\ main = "submitting"
    /\ Len(active_bots) < Len(symbols)
    /\ LET s == symbols[Len(active_bots) + 1]
           c == store_construct("json", EmptyDb, files[bot_data_dir(s)], clock + 1)
       IN  /\ bots' = Put(bots, s, c.st)
           /\ active_bots' = Append(active_bots, s)
           /\ loop' = [loop EXCEPT ![s] = "queued"]
           /\ step' = [by |-> "main", what |-> "submit"]
    /\ clock' = clock + 1
    /\ UNCHANGED <<symbols, max_threads, main, loop_ticks, files, stop, reports>>
    /\ UNCHANGED BotVars

(* main leaves the `with` block: ThreadPoolExecutor.__exit__ calls
   shutdown(wait=True), which joins the workers. *)
MainShutdown ==
    /\ main = "submitting"
    /\ Len(active_bots) = Len(symbols)
    /\ main' = "joining"
    /\ step' = [by |-> "main", what |-> "shutdown"]
    /\ UNCHANGED <<symbols, max_threads, active_bots, loop, loop_ticks, bots, files,
                   stop, reports, clock>>
    /\ UNCHANGED BotVars

(* Ctrl-C: KeyboardInterrupt is raised in the main thread, nowhere else.
   Raised in the join of shutdown it leaves main() (`except Exception` does
   not catch it) and reaches the handler under __main__; raised inside the
   `with` block it first has __exit__ join the workers. *)
StopSignal ==
    /\ ~stop
    /\ main \in {"submitting", "joining"}
    /\ stop' = TRUE
    /\ main' = IF main = "joining" THEN "reporting" ELSE "unwinding"
    /\ step' = [by |-> "signal", what |-> "stop"]
    /\ UNCHANGED <<symbols, max_threads, active_bots, loop, loop_ticks, bots, files,
                   reports, clock>>
    /\ UNCHANGED BotVars

(* __exit__ has joined the workers: the pending KeyboardInterrupt goes on to
   the handler under __main__. *)
MainUnwound ==
    /\ main = "unwinding"
    /\ Unfinished = {}
    /\ main' = "reporting"
    /\ step' = [by |-> "main", what |-> "unwound"]
    /\ UNCHANGED <<symbols, max_threads, active_bots, loop, loop_ticks, bots, files,
                   stop, reports, clock>>
    /\ UNCHANGED BotVars

(* shutdown returns because every task has ended; no thread is left to join
   at lines 181-186 and main returns. *)
MainJoined ==
    /\ main = "joining"
    /\ Unfinished = {}
    /\ main' = "exited"
    /\ step' = [by |-> "main", what |-> "return"]
    /\ UNCHANGED <<symbols, max_threads, active_bots, loop, loop_ticks, bots, files,
                   stop, reports, clock>>
    /\ UNCHANGED BotVars

(* The handler under __main__, one turn of `for bot in active_bots`:
   generate_dashboard for the bot's symbol. *)
MainReport ==
    /\ main = "reporting"
    /\ \E i \in DOMAIN active_bots :
          /\ reports[active_bots[i]] = 0
          /\ \A j \in 1..(i - 1) : reports[active_bots[j]] > 0
          /\ reports' = [reports EXCEPT ![active_bots[i]] = @ + 1]
    /\ step' = [by |-> "main", what |-> "report"]
    /\ UNCHANGED <<symbols, max_threads, main, active_bots, loop, loop_ticks, bots,
                   files, stop, clock>>
    /\ UNCHANGED BotVars

(* The handler is through ("Goodbye!"); the interpreter now joins the
   worker threads before the process ends. *)
MainGoodbye ==
    /\ main = "reporting"
    /\ \A i \in DOMAIN active_bots : reports[active_bots[i]] > 0
    /\ main' = "exiting"
    /\ step' = [by |-> "main", what |-> "goodbye"]
    /\ UNCHANGED <<symbols, max_threads, active_bots, loop, loop_ticks, bots, files,
                   stop, reports, clock>>
    /\ UNCHANGED BotVars

MainExit ==
    /\ main = "exiting"
    /\ Unfinished = {}
    /\ main' = "exited"
    /\ step' = [by |-> "main", what |-> "exit"]
    /\ UNCHANGED <<symbols, max_threads, active_bots, loop, loop_ticks, bots, files,
                   stop, reports, clock>>
    /\ UNCHANGED BotVars

(* A worker of the pool takes the oldest task of the queue: run_bot of s
   starts.  There are at most pool_size workers and a worker runs one task
   at a time. *)
WorkerStart(s) ==
    /\ s \in DOMAIN loop
    /\ loop[s] = "queued"
    /\ \A i \in DOMAIN active_bots :
          loop[active_bots[i]] = "queued" =>
              \E j \in 1..i : active_bots[j] = s
    /\ Cardinality(Running) < pool_size
    /\ loop' = [loop EXCEPT ![s] = "running"]
    /\ step' = [by |-> s, what |-> "start"]
    /\ UNCHANGED <<symbols, max_threads, main, active_bots, loop_ticks, bots, files,
                   stop, reports, clock>>
    /\ UNCHANGED BotVars

(* run_bot, one iteration of `while True` with market data; update_price
   and execute_trade save to the bot's data directory. *)
RunBotTick(s) ==
    /\ s \in DOMAIN loop
    /\ loop[s] = "running"
    /\ loop_ticks[s] < MaxLoopTicks
    /\ \E price \in ProcPrices, signal \in Signals :
          LET st == run_bot_iteration(bots[s], price, signal, clock + 1)
          IN  /\ bots' = [bots EXCEPT ![s] = st]
              /\ files' = [files EXCEPT ![bot_data_dir(s)] = CompleteFile(Document(st))]
    /\ loop' = [loop EXCEPT ![s] = "sleeping"]
    /\ loop_ticks' = [loop_ticks EXCEPT ![s] = @ + 1]
    /\ step' = [by |-> s, what |-> "tick"]
    /\ clock' = clock + 1
    /\ UNCHANGED <<symbols, max_threads, main, active_bots, stop, reports>>
    /\ UNCHANGED BotVars

(* run_bot, one iteration in which analyze_market returned None *)
RunBotNoData(s) ==
    /\ s \in DOMAIN loop
    /\ loop[s] = "running"
    /\ loop' = [loop EXCEPT ![s] = "sleeping"]
    /\ loop_ticks' = [loop_ticks EXCEPT ![s] = Min(@ + 1, MaxLoopTicks)]
    /\ step' = [by |-> s, what |-> "no_data"]
    /\ clock' = IF loop_ticks[s] < MaxLoopTicks THEN clock + 1 ELSE clock
    /\ UNCHANGED <<symbols, max_threads, main, active_bots, bots, files, stop, reports>>
    /\ UNCHANGED BotVars

(* run_bot: time.sleep(sleep_time) returns and `while True` starts the next
   iteration; nothing is tested there. *)
RunBotWake(s) ==
    /\ s \in DOMAIN loop
    /\ loop[s] = "sleeping"
    /\ loop' = [loop EXCEPT ![s] = "running"]
    /\ step' = [by |-> s, what |-> "wake"]
    /\ UNCHANGED <<symbols, max_threads, main, active_bots, loop_ticks, bots, files,
                   stop, reports, clock>>
    /\ UNCHANGED BotVars

(* run_bot, an iteration in which an exception is raised: the `try` is
   around the `while`, the handler prints "Error running bot" and re-raises,
   so run_bot returns with the exception and the worker is free. *)
RunBotRaise(s) ==
    /\ s \in DOMAIN loop
    /\ loop[s] = "running"
    /\ loop_ticks[s] < MaxLoopTicks
    /\ loop' = [loop EXCEPT ![s] = "raised"]
    /\ loop_ticks' = [loop_ticks EXCEPT ![s] = @ + 1]
    /\ step' = [by |-> s, what |-> "exception"]
    /\ clock' = clock + 1
    /\ UNCHANGED <<symbols, max_threads, main, active_bots, bots, files, stop, reports>>
    /\ UNCHANGED BotVars

MainStep ==
    \/ MainSubmit
    \/ MainShutdown
    \/ MainUnwound
    \/ MainJoined
    \/ MainReport
    \/ MainGoodbye
    \/ MainExit

LoopStep(s) == RunBotTick(s) \/ RunBotNoData(s) \/ RunBotWake(s)

NextProc ==
    \/ MainStep
    \/ StopSignal
    \/ \E s \in ProcSymbols : WorkerStart(s)
    \/ \E s \in ProcSymbols : LoopStep(s)
    \/ \E s \in ProcSymbols : RunBotRaise(s)

SpecProc == InitProc /\ [][NextProc]_vars

(* Every thread that can take a step takes one; nothing forces a Ctrl-C or
   an exception. *)
FairSpecProc ==
    /\ SpecProc
    /\ WF_vars(MainStep)
    /\ \A s \in ProcSymbols : WF_vars(WorkerStart(s)) /\ WF_vars(LoopStep(s))

----------------------------------------------------------------------------
(* Start-up of main.py with a symbol whose bot cannot be constructed.  The
   whole `for symbol in symbols` loop is inside one try whose handler is
   `except Exception` after the `with` block. *)

(* main, one turn of `for symbol in symbols` in which CryptoTradingBot(...)
   raises (a symbol without '/', a bad window): the exception leaves the for
   loop and the `with` block, whose __exit__ joins the workers first. *)
MainConstructRaises ==
    /\ main = "submitting"
    /\ Len(active_bots) < Len(symbols)
    /\ LET s == symbols[Len(active_bots) + 1]
       IN  loop' = [loop EXCEPT ![s] = "failed"]
    /\ main' = "failed"
    /\ step' = [by |-> "main", what |-> "construct_raised"]
    /\ UNCHANGED <<symbols, max_threads, active_bots, loop_ticks, bots, files, stop,
                   reports, clock>>
    /\ UNCHANGED BotVars

(* __exit__ has joined the workers: the handler prints "Error initializing
   bots" and main goes on to join the threads that are left (lines 180-186). *)
MainErrorHandled ==
    /\ main = "failed"
    /\ Unfinished = {}
    /\ main' = "joining"
    /\ step' = [by |-> "main", what |-> "error_handled"]
    /\ UNCHANGED <<symbols, max_threads, active_bots, loop, loop_ticks, bots, files,
                   stop, reports, clock>>
    /\ UNCHANGED BotVars

(* Ctrl-C while __exit__ joins the workers after the failure *)
StopSignalAfterFailure ==
    /\ ~stop
    /\ main = "failed"
    /\ stop' = TRUE
    /\ main' = "reporting"
    /\ step' = [by |-> "signal", what |-> "stop"]
    /\ UNCHANGED <<symbols, max_threads, active_bots, loop, loop_ticks, bots, files,
                   reports, clock>>
    /\ UNCHANGED BotVars

NextStartup ==
    \/ NextProc
    \/ MainConstructRaises
    \/ MainErrorHandled
    \/ StopSignalAfterFailure

SpecStartup == InitProc /\ [][NextStartup]_vars

----------------------------------------------------------------------------
(* The web application (web-ui/app.py): start_bot and stop_bot requests and
   the threads running bot_thread_function.  active_bots is the dictionary
   of the application, from symbol to the thread started for its bot. *)

MaxStarts == 2

ThreadIds == 1 .. MaxStarts

WebSymbols == {"BTC/USDT", "ETH/USDT"}
WebPrices == {1000, 1005}

Drop(f, k) == [x \in DOMAIN f \ {k} |-> f[x]]

(* The entry of bot_statuses that start_bot and bot_thread_function write *)
StatusEntry(status, by) == [status |-> status, price |-> 0, by |-> by]

SetStatus(s, status) == [bot_statuses EXCEPT ![s].status = status]

(* Thread i with pc (and what else changes) replaced *)
ThreadAt(i, pc) == [bot_threads EXCEPT ![i].pc = pc]

WebFrame == <<current_position_size, position_entry_prices, quote_balance, base_balance,
             transaction_history, balance_history, now, ticks, df, position_change,
             outcome, call, backend, data_file, db, snapshot,
             symbols, max_threads, main, loop, loop_ticks, bots, files, stop, reports>>

InitWeb ==
    /\ NoWeb
    /\ symbols = <<>>
    /\ max_threads = 1
    /\ main = "none"
    /\ active_bots = <<>>
    /\ loop = <<>>
    /\ loop_ticks = <<>>
    /\ bots = <<>>
    /\ files = <<>>
    /\ stop = FALSE
    /\ reports = <<>>
    /\ step = [by |-> "web", what |-> "start"]
    /\ clock = 0
    /\ current_position_size = 0
    /\ position_entry_prices = <<>>
    /\ quote_balance = 0
    /\ base_balance = 0
    /\ transaction_history = <<>>
    /\ balance_history = <<>>
    /\ now = 0
    /\ ticks = 0
    /\ df = <<>>
    /\ position_change = 0
    /\ outcome = "start"
    /\ call = NoCall
    /\ backend = "json"
    /\ data_file = NoFile
    /\ db = EmptyDb
    /\ snapshot = [status |-> "none"]

(* POST /start_bot for a symbol that has no active bot: the bot is
   constructed and stored, the status entry is 'initializing', the thread is
   created and started. *)
StartBot(s) ==
    /\ Len(bot_threads) < MaxStarts
    /\ s \notin DOMAIN active_bots
    /\ active_bots' = Put(active_bots, s, Len(bot_threads) + 1)
    /\ bot_statuses' = Put(bot_statuses, s, StatusEntry("initializing", 0))
    /\ bot_threads' = Append(bot_threads,
                             [symbol |-> s, pc |-> "created", ticks |-> 0,
                              stopped |-> FALSE])
    /\ step' = [by |-> "web", what |-> "start_bot", symbol |-> s]
    /\ UNCHANGED <<stop_requests, clock>>
    /\ UNCHANGED WebFrame

(* POST /start_bot for a symbol in active_bots: 'Bot for ... is already
   running' *)
StartBotRejected(s) ==
    /\ s \in DOMAIN active_bots
    /\ step' = [by |-> "web", what |-> "start_rejected", symbol |-> s]
    /\ UNCHANGED <<active_bots, bot_statuses, bot_threads, stop_requests, clock>>
    /\ UNCHANGED WebFrame

(* POST /stop_bot/<symbol>, up to generate_dashboard: the status becomes
   'stopping' *)
StopBotBegin(s) ==
    /\ s \in DOMAIN active_bots
    /\ s \notin stop_requests
    /\ bot_statuses' = SetStatus(s, "stopping")
    /\ stop_requests' = stop_requests \cup {s}
    /\ step' = [by |-> "web", what |-> "stop_bot", symbol |-> s]
    /\ UNCHANGED <<active_bots, bot_threads, clock>>
    /\ UNCHANGED WebFrame

(* POST /stop_bot/<symbol>, the rest: the bot is deleted from active_bots,
   the status becomes 'stopped', the request returns success.  `stopped`
   marks the threads of the symbol that have not ended: the loops this stop
   was for. *)
StopBotReturn(s) ==
    /\ s \in stop_requests
    /\ active_bots' = Drop(active_bots, s)
    /\ bot_statuses' = SetStatus(s, "stopped")
    /\ stop_requests' = stop_requests \ {s}
    /\ bot_threads' = [i \in DOMAIN bot_threads |->
                          IF bot_threads[i].symbol = s /\ bot_threads[i].pc # "ended"
                              THEN [bot_threads[i] EXCEPT !.stopped = TRUE]
                              ELSE bot_threads[i]]
    /\ step' = [by |-> "web", what |-> "stop_returned", symbol |-> s]
    /\ UNCHANGED clock
    /\ UNCHANGED WebFrame

(* POST /stop_bot/<symbol> for a symbol not in active_bots: 'No active bot
   found' *)
StopBotRejected(s) ==
    /\ s \notin DOMAIN active_bots
    /\ step' = [by |-> "web", what |-> "stop_rejected", symbol |-> s]
    /\ UNCHANGED <<active_bots, bot_statuses, bot_threads, stop_requests, clock>>
    /\ UNCHANGED WebFrame

(* bot_thread_function, its first statement: the status entry of the symbol
   is replaced by one with status 'running'. *)
ThreadInit(i) ==
    /\ i \in DOMAIN bot_threads
    /\ bot_threads[i].pc = "created"
    /\ bot_statuses' = Put(bot_statuses, bot_threads[i].symbol, StatusEntry("running", i))
    /\ bot_threads' = ThreadAt(i, "test")
    /\ step' = [by |-> i, what |-> "init"]
    /\ UNCHANGED <<active_bots, stop_requests, clock>>
    /\ UNCHANGED WebFrame

(* while bot_statuses[symbol]['status'] == 'running' *)
ThreadTest(i) ==
    /\ i \in DOMAIN bot_threads
    /\ bot_threads[i].pc = "test"
    /\ bot_threads' =
           ThreadAt(i, IF bot_statuses[bot_threads[i].symbol].status = "running"
                           THEN "tick" ELSE "ended")
    /\ step' = [by |-> i, what |-> "test"]
    /\ UNCHANGED <<active_bots, bot_statuses, stop_requests, clock>>
    /\ UNCHANGED WebFrame

(* The body of the loop with market data: the price goes into the status
   entry, process_signals and update_price run on the thread's bot. *)
ThreadTick(i) ==
    /\ i \in DOMAIN bot_threads
    /\ bot_threads[i].pc = "tick"
    /\ bot_threads[i].ticks < MaxLoopTicks
    /\ \E p \in WebPrices :
          bot_statuses' = [bot_statuses EXCEPT ![bot_threads[i].symbol].price = p,
                                               ![bot_threads[i].symbol].by = i]
    /\ bot_threads' = [bot_threads EXCEPT ![i].pc = "sleep", ![i].ticks = @ + 1]
    /\ step' = [by |-> i, what |-> "tick"]
    /\ UNCHANGED <<active_bots, stop_requests, clock>>
    /\ UNCHANGED WebFrame

(* The body of the loop when analyze_market returns nothing: only the sleep *)
ThreadTickNoData(i) ==
    /\ i \in DOMAIN bot_threads
    /\ bot_threads[i].pc = "tick"
    /\ bot_threads' = ThreadAt(i, "sleep")
    /\ step' = [by |-> i, what |-> "no_data"]
    /\ UNCHANGED <<active_bots, bot_statuses, stop_requests, clock>>
    /\ UNCHANGED WebFrame

(* time.sleep(interval) returns *)
ThreadWake(i) ==
    /\ i \in DOMAIN bot_threads
    /\ bot_threads[i].pc = "sleep"
    /\ bot_threads' = ThreadAt(i, "test")
    /\ step' = [by |-> i, what |-> "wake"]
    /\ UNCHANGED <<active_bots, bot_statuses, stop_requests, clock>>
    /\ UNCHANGED WebFrame

(* An exception in the body: the handler outside the loop sets the status
   'error' and the function returns. *)
ThreadRaise(i) ==
    /\ i \in DOMAIN bot_threads
    /\ bot_threads[i].pc = "tick"
    /\ bot_statuses' = SetStatus(bot_threads[i].symbol, "error")
    /\ bot_threads' = ThreadAt(i, "ended")
    /\ step' = [by |-> i, what |-> "exception"]
    /\ UNCHANGED <<active_bots, stop_requests, clock>>
    /\ UNCHANGED WebFrame

RequestStep(s) ==
    \/ StartBot(s)
    \/ StartBotRejected(s)
    \/ StopBotBegin(s)
    \/ StopBotReturn(s)
    \/ StopBotRejected(s)

ThreadStep(i) ==
    \/ ThreadInit(i)
    \/ ThreadTest(i)
    \/ ThreadTick(i)
    \/ ThreadTickNoData(i)
    \/ ThreadWake(i)
    \/ ThreadRaise(i)

NextWeb ==
    \/ \E s \in WebSymbols : RequestStep(s)
    \/ \E i \in ThreadIds : ThreadStep(i)

SpecWeb == InitWeb /\ [][NextWeb]_vars

----------------------------------------------------------------------------
(* Properties *)

Cap == max_position_size * base_position_size

(* The tick that led to the current state handled market data. *)
Ticked == ticks > 0 /\ df # <<>>

(* The step is a tick that handled a sell signal as a signal-driven sell: no
   risk trigger held, and one sell was recorded. *)
SignalSellStep ==
    /\ ticks' = ticks + 1
    /\ position_change' = -1
    /\ outcome' = "handled"
    /\ positions_to_close(position_entry_prices, Last(df'), df') = <<>>
    /\ Len(transaction_history') = Len(transaction_history) + 1

(* C1: between operations the amounts of the open lots add up to
   current_position_size, whatever mix of buys, signal-driven sells, risk
   closes and rejected trades came before. *)
C1_LotsSumToPosition ==
    SumAmounts(position_entry_prices) = current_position_size

(* Two lots are open after a signal-driven or risk sell has been recorded. *)
C1_Witness ==
    /\ Len(position_entry_prices) >= 2
    /\ \E i \in 1 .. Len(transaction_history) :
          /\ transaction_history[i].action = "sell"
          /\ transaction_history[i].timestamp > 0

(* C2: the position never leaves 0 .. max_position_size * base_position_size. *)
C2_PositionWithinCap ==
    /\ current_position_size >= 0
    /\ current_position_size <= Cap

(* The cap is reached by three buys, the last one cut to the headroom. *)
C2_Witness ==
    /\ current_position_size = Cap
    /\ Len(position_entry_prices) = 3
    /\ position_entry_prices[3].amount < position_entry_prices[2].amount

(* C3: a signal-driven sell of less than the oldest lot's amount takes
   exactly the sold amount off the oldest lot and leaves every newer lot,
   its price and the order of the lots as they were. *)
C3_SmallSellTouchesOldestOnly ==
    [][ (SignalSellStep /\
         Last(transaction_history').amount < Head(position_entry_prices).amount)
        => position_entry_prices' =
               <<Lot(Head(position_entry_prices).amount
                         - Last(transaction_history').amount,
                     Head(position_entry_prices).entry_price)>>
               \o Tail(position_entry_prices) ]_vars

(* A sell signal was handled while two lots were open, and both are still
   open, the older one smaller than the newer one. *)
C3_Witness ==
    /\ Ticked
    /\ position_change = -1
    /\ outcome = "handled"
    /\ Len(transaction_history) >= 3
    /\ Last(transaction_history).action = "sell"
    /\ Last(transaction_history).timestamp = now
    /\ Len(position_entry_prices) = 2
    /\ position_entry_prices[1].amount + Last(transaction_history).amount
           = hf_signal_strength + 10

(* C4: update_position_entry_prices consumes from the oldest lot on: the
   first k lots are gone and together held no more than the sold amount, the
   next lot is reduced by the remainder and keeps its price, the lots after
   it are unchanged, and the total taken is min(sell_amount, held). *)
C4_SellConsumesOldestFirst ==
    call.op = "update_position_entry_prices" =>
        LET old  == call.before.position_entry_prices
            new  == position_entry_prices
            a    == call.sell_amount
            held == SumAmounts(old)
            sold == Min(a, held)
            k    == Len(old) - Len(new)
            gone == SumAmounts(SubSeq(old, 1, k))
        IN  /\ k >= 0
            /\ gone <= sold
            /\ SumAmounts(new) = held - sold
            /\ new # <<>> =>
                  /\ new[1].entry_price = old[k + 1].entry_price
                  /\ new[1].amount = old[k + 1].amount - (sold - gone)
                  /\ new[1].amount > 0
                  /\ Tail(new) = SubSeq(old, k + 2, Len(old))

(* The sell removed the oldest lot and part of the next one. *)
C4_Witness ==
    /\ call.op = "update_position_entry_prices"
    /\ Len(call.before.position_entry_prices) = 2
    /\ Len(position_entry_prices) = 1
    /\ position_entry_prices[1].amount
           < call.before.position_entry_prices[2].amount

(* C5: a buy that costs more than quote_balance, and a sell of more than
   base_balance, returns False and changes nothing; and when process_signals
   gets no trade accepted, balances, histories and the ledger are as before. *)
C5_RejectedTradeChangesNothing ==
    /\ call.op = "execute_trade" =>
          ((\/ call.action = "buy" /\
                  call.amount * call.price * 1001 > call.before.quote_balance
            \/ call.action = "sell" /\ call.amount > call.before.base_balance)
           => ~call.ok /\ Cur = call.before)
    /\ call.op = "process_signals" =>
          (Len(transaction_history) = Len(call.before.transaction_history)
           => Cur = call.before)

(* process_signals got a buy signal with no position open and the simulated
   buy was turned down for lack of quote balance. *)
C5_Witness ==
    /\ call.op = "process_signals"
    /\ call.signal = 1
    /\ call.before.current_position_size = 0
    /\ (hf_signal_strength + 10) * call.price * 1001 > call.before.quote_balance
    /\ call.ret

(* The last three closes of a frame are strictly decreasing. *)
StrictlyDecreasing(frame) ==
    /\ Len(frame) >= 3
    /\ frame[Len(frame) - 2] > frame[Len(frame) - 1]
    /\ frame[Len(frame) - 1] > frame[Len(frame)]

(* A lot with a known entry price meets take-profit (0.5%) or stop-loss
   (0.3%) at price p. *)
MeetsExit(lot, p) ==
    /\ lot.entry_price > 0
    /\ \/ p * 1000 >= lot.entry_price * 1005
       \/ p * 1000 <= lot.entry_price * 997

BuysInWindow ==
    {i \in 1 .. Len(transaction_history) :
        /\ transaction_history[i].action = "buy"
        /\ transaction_history[i].timestamp > now - TradeWindow}

(* C6: of the buy signals of one 60-second window at most minute_trade_limit
   are accepted as entries; the next one is denied. *)
C6_EntriesWithinTradeLimit ==
    Cardinality(BuysInWindow) <= minute_trade_limit

(* C7: after a tick at price p no lot with a known entry price P is left
   open with p >= P * 1.005 or p <= P * 0.997, however many trades the
   window already holds. *)
C7_ExitsCloseEveryTriggeredLot ==
    Ticked =>
        \A i \in 1 .. Len(position_entry_prices) :
            ~MeetsExit(position_entry_prices[i], Last(df))

(* Two buys fill the window's trade limit, and the next tick, on no sell
   signal, closes both lots at a price 0.5% or more above the first entry. *)
C7_Witness ==
    /\ Ticked
    /\ position_change # -1
    /\ outcome = "handled"
    /\ position_entry_prices = <<>>
    /\ Len(transaction_history) = 4
    /\ Cardinality(BuysInWindow) >= minute_trade_limit
    /\ transaction_history[3].action = "sell"
    /\ transaction_history[3].timestamp = now
    /\ Last(df) * 1000 >= transaction_history[1].price * 1005

Untriggered(lots, p) == SelectSeq(lots, LAMBDA lot : ~MeetsExit(lot, p))

(* C8: on a tick whose last three closes are strictly decreasing, with a lot
   open, the oldest lot is closed, and of the other lots only those that
   themselves meet take-profit or stop-loss. *)
C8_MicroTrendClosesOldestOnly ==
    [][ (/\ ticks' = ticks + 1
         /\ StrictlyDecreasing(df')
         /\ position_entry_prices # <<>>)
        => position_entry_prices' = Untriggered(Tail(position_entry_prices), Last(df')) ]_vars

ZeroLotOpen ==
    /\ position_entry_prices # <<>>
    /\ Head(position_entry_prices).entry_price = 0

(* C9: a lot of zero entry price counts toward current_position_size; a tick
   without a micro-trend reversal and without a sell signal leaves it as it
   is, at any price; a tick with a micro-trend reversal closes it when it is
   the oldest lot, by a sell of its amount. *)
C9_ZeroPriceLotExempt ==
    /\ [](ZeroLotOpen =>
             /\ current_position_size = SumAmounts(position_entry_prices)
             /\ current_position_size >= Head(position_entry_prices).amount)
    /\ [][ (ticks' = ticks + 1 /\ df' # <<>> /\ ZeroLotOpen) =>
              /\ (~StrictlyDecreasing(df') /\ position_change' # -1) =>
                     /\ ZeroLotOpen'
                     /\ Head(position_entry_prices') = Head(position_entry_prices)
              /\ StrictlyDecreasing(df') =>
                     /\ ~ZeroLotOpen'
                     /\ \E i \in 1 .. Len(transaction_history') :
                           /\ transaction_history'[i].timestamp = now'
                           /\ transaction_history'[i].action = "sell"
                           /\ transaction_history'[i].amount
                                  = Head(position_entry_prices).amount ]_vars

(* The zero-price lot is still open, oldest of two, after a tick that
   closed a newer lot on take-profit. *)
C9_Witness ==
    /\ Ticked
    /\ ZeroLotOpen
    /\ outcome = "handled"
    /\ position_change = 0
    /\ Len(position_entry_prices) = 1
    /\ Len(transaction_history) = 3
    /\ Last(transaction_history).action = "sell"
    /\ Last(transaction_history).timestamp = now

(* C10: below the minimum strength the increment is 0; from it on the factor
   is 1.0 + strength, times the remaining increments when fewer than one
   remain; and the buy amount is base_position_size * factor cut to the
   remaining headroom.  (Factors are times 10 * base_position_size, buy
   amounts times 10.) *)
C10_IncrementScaledAndCapped ==
    call.op = "calculate_position_increment" =>
        LET s        == call.strength
            headroom == Cap - call.before.current_position_size
            factor   == call.increment10
            buy10    == call.buy10
        IN  /\ s < min_signal_strength_for_increment => factor = 0
            /\ (s >= min_signal_strength_for_increment /\ headroom >= base_position_size)
                  => factor = (10 + s) * base_position_size
            /\ (s >= min_signal_strength_for_increment /\ headroom < base_position_size)
                  => factor = (10 + s) * headroom
            /\ buy10 <= 10 * headroom
            /\ buy10 = IF factor <= 10 * headroom THEN factor ELSE 10 * headroom

(* A strong signal with less than one increment of headroom left: the factor
   is scaled down and the buy amount is the headroom. *)
C10_Witness ==
    /\ call.op = "calculate_position_increment"
    /\ call.strength = 10
    /\ Cap - call.before.current_position_size \in 1 .. (base_position_size - 1)
    /\ call.increment10 < 20 * base_position_size
    /\ call.buy10 = 10 * (Cap - call.before.current_position_size)


(* C11: calculate_sell_amount with a strength above 0.8 returns the whole
   current_position_size, whatever the position. *)
C11_StrongSignalLiquidates ==
    (call.op = "calculate_sell_amount" /\ call.strength > 8) =>
        call.sell100 = 100 * call.before.current_position_size

(* Strength 0.9 with a position of 1.4 base units: the whole 1.4 is sold,
   where the fraction 0.7 would have been rounded to one base unit. *)
C11_Witness ==
    /\ call.op = "calculate_sell_amount"
    /\ call.strength = 9
    /\ call.before.current_position_size = base_position_size + 4
    /\ call.sell100 = 100 * (base_position_size + 4)

(* C12: calculate_sell_amount with a strength of at most 0.8 returns
   (0.25 + 0.5 * strength) of current_position_size, or one
   base_position_size when that is less and at least one is held; never more
   than is held.  In particular a fraction of at least one base_position_size
   is returned as it is, not as the whole position. *)
C12_ModerateSignalSellsFraction ==
    (call.op = "calculate_sell_amount" /\ call.strength <= 8) =>
        LET cps     == call.before.current_position_size
            frac100 == cps * (25 + 5 * call.strength)
        IN  /\ call.sell100 <= 100 * cps
            /\ (frac100 < 100 * base_position_size /\ cps >= base_position_size)
                   => call.sell100 = 100 * base_position_size
            /\ frac100 >= 100 * base_position_size => call.sell100 = frac100


RECURSIVE IsSubsequence(_, _)
IsSubsequence(s, t) ==
    IF s = <<>> THEN TRUE
    ELSE IF t = <<>> THEN FALSE
    ELSE IF Head(s) = Head(t) THEN IsSubsequence(Tail(s), Tail(t))
    ELSE IsSubsequence(s, Tail(t))

IsPrefix(s, t) == Len(s) <= Len(t) /\ SubSeq(t, 1, Len(s)) = s

(* C13: a load right after a successful balance append gives the tracker the
   quote and base balance it had in memory at the append, for the JSON file
   and for SQLite. *)
C13_LoadAfterAppendRestoresBalances ==
    (call.op = "load" /\ call.after_append) =>
        /\ call.loaded
        /\ quote_balance = call.before.quote_balance
        /\ base_balance = call.before.base_balance

(* C14: a read of an existing export, at any moment, returns a complete
   document whose histories are prefixes of the writer's. *)
C14_ReaderSeesConsistentSnapshot ==
    snapshot.status \notin {"none", "absent"} =>
        /\ snapshot.status = "ok"
        /\ IsPrefix(snapshot.doc.balance_history,
                    ExportDoc(backend, Cur, db).balance_history)
        /\ IsPrefix(snapshot.doc.transactions,
                    ExportDoc(backend, Cur, db).transactions)

(* C15: every record of one export is in the next export of the symbol,
   unmodified and in the same relative order, over trades, price updates and
   restarts. *)
C15_ExportIsAppendOnly ==
    [][ (/\ data_file.status = "torn"
         /\ data_file.replaced.status = "complete"
         /\ data_file'.status = "complete")
        => /\ IsSubsequence(data_file.replaced.doc.balance_history,
                            data_file'.doc.balance_history)
           /\ IsSubsequence(data_file.replaced.doc.transactions,
                            data_file'.doc.transactions) ]_vars

(* C18: a tick on which no market data is available leaves
   current_position_size, the lots, both balances and the transaction
   history as they were; it ends like any other iteration, with the sleep of
   CHECK_INTERVAL after which the loop fetches again. *)
C18_NoDataLeavesLedgerUnchanged ==
    [][ (ticks' = ticks + 1 /\ df' = <<>>) =>
            /\ outcome' = "no_data"
            /\ now' = now + CHECK_INTERVAL
            /\ UNCHANGED <<current_position_size, position_entry_prices,
                           quote_balance, base_balance, transaction_history>>
      ]_vars

(* A tick without data after a buy: the lot and the balances are those the
   buy left. *)
C18_Witness ==
    /\ outcome = "no_data"
    /\ df = <<>>
    /\ ticks >= 2
    /\ current_position_size = base_position_size
    /\ Len(transaction_history) = 1
    /\ Last(transaction_history).timestamp < now

(* C16: a step of one symbol's loop changes neither another symbol's bot nor
   the export in another symbol's data directory (what a load for that
   symbol returns). *)
C16_SymbolsAreIsolated ==
    [][ step'.what \in {"tick", "no_data", "exception"} =>
            \A b \in DOMAIN bots \ {step'.by} :
                /\ bots'[b] = bots[b]
                /\ files'[bot_data_dir(b)] = files[bot_data_dir(b)]
      ]_vars

(* C17: an exception raised in a tick of a symbol's loop leaves that loop
   running, as it leaves the other loops and the process. *)
C17_ExceptionDoesNotEndLoop ==
    [][ step'.what = "exception" =>
            /\ loop'[step'.by] \in {"running", "sleeping"}
            /\ \A b \in DOMAIN loop \ {step'.by} : loop'[b] = loop[b]
            /\ main' = main
      ]_vars

AllLoopsHalted == Unfinished = {}

(* C19: after the stop signal every loop eventually halts, so that the
   final reports can follow. *)
C19_StopHaltsEveryLoop == stop ~> AllLoopsHalted

(* C20: unless the process is stopped first, the loop of every configured
   symbol eventually executes its first tick. *)
C20_EveryLoopTicks ==
    <>(stop \/ \A s \in DOMAIN loop_ticks : loop_ticks[s] >= 1)

(* C25: the signal strength is in [0.0, 1.0] for every indicator snapshot,
   also with the close outside the bands and with indicators missing. *)
C25_StrengthInUnitInterval ==
    call.op = "calculate_signal_strength" =>
        (0 <= call.strength100 /\ call.strength100 <= 100)

(* The transactions the last call appended *)
NewTransactions ==
    SubSeq(transaction_history, Len(call.before.transaction_history) + 1,
           Len(transaction_history))

(* The number of triggers the risk check of the last process_signals call
   saw: the micro-trend reversal, and each lot meeting take-profit or
   stop-loss. *)
TriggersFired ==
    LET lots == call.before.position_entry_prices
    IN  (IF StrictlyDecreasing(call.frame) THEN 1 ELSE 0)
            + Cardinality({i \in 1 .. Len(lots) : MeetsExit(lots[i], call.price)})

RiskActionReported ==
    /\ call.op = "process_signals"
    /\ call.before.current_position_size > 0
    /\ call.before.position_entry_prices # <<>>
    /\ TriggersFired > 0

(* C30: when the risk check of a process_signals call reports an action, the
   call executes no buy and no sell beyond the risk closes, whatever the
   signal: every trade it records is a sell, there are at most as many as
   triggers fired, no lot is added, and it returns True unless it raised. *)
C30_RiskActionPreemptsSignal ==
    RiskActionReported =>
        /\ \A i \in 1 .. Len(NewTransactions) : NewTransactions[i].action = "sell"
        /\ Len(NewTransactions) <= TriggersFired
        /\ Len(position_entry_prices) <= Len(call.before.position_entry_prices)
        /\ current_position_size <= call.before.current_position_size
        /\ ~call.raised => call.ret

(* A call with a sell signal whose risk check closed one lot and left
   another open, which the sell signal did not touch. *)
C30_Witness ==
    /\ RiskActionReported
    /\ call.signal = -1
    /\ ~call.raised
    /\ Len(NewTransactions) = 1
    /\ position_entry_prices # <<>>

(* The lots of the ledger before the last call that no trigger names: not
   the oldest under a micro-trend reversal, and not meeting take-profit or
   stop-loss at the call's price. *)
LotsNotTriggered ==
    LET lots == call.before.position_entry_prices
        keep == {i \in 1 .. Len(lots) :
                    /\ ~(i = 1 /\ StrictlyDecreasing(call.frame))
                    /\ ~MeetsExit(lots[i], call.price)}
    IN  [lots |-> lots, keep |-> keep]

RECURSIVE KeptFrom(_, _, _)
KeptFrom(lots, keep, i) ==
    IF i > Len(lots) THEN <<>>
    ELSE (IF i \in keep THEN <<lots[i]>> ELSE <<>>) \o KeptFrom(lots, keep, i + 1)

(* C27: one risk pass closes only lots that themselves satisfy a trigger,
   each at most once, and completes without an index error: the lots no
   trigger names are all still open afterwards, in order, and there are at
   most as many closing sells as triggered lots. *)
C27_RiskPassClosesOnlyTriggered ==
    RiskActionReported =>
        /\ ~call.raised
        /\ IsSubsequence(KeptFrom(LotsNotTriggered.lots, LotsNotTriggered.keep, 1),
                         position_entry_prices)
        /\ Len(NewTransactions)
               <= Len(call.before.position_entry_prices)
                      - Cardinality(LotsNotTriggered.keep)

(* C29: loading a persisted session leaves the store as it is, the database
   and the export, and a second load right after a first one returns the
   balances and the histories of the first. *)
C29_LoadIsReadOnly ==
    [][ (call'.op = "load" /\ call'.session = call.session + 1 /\ call'.loaded) =>
            /\ db' = db
            /\ data_file' = data_file
            /\ (call.op = "load" /\ call.loaded /\ backend' = backend) =>
                   /\ quote_balance' = quote_balance
                   /\ base_balance' = base_balance
                   /\ transaction_history' = transaction_history
                   /\ balance_history' = balance_history
      ]_vars

(* A trade applied to balances with the 0.1% fee: a buy takes a*p*1.001 from
   quote and adds a to base, a sell adds a*p*0.999 to quote and takes a from
   base. *)
ApplyTrade(bal, t) ==
    IF t.action = "buy"
        THEN [quote |-> bal.quote - t.amount * t.price * 1001, base |-> bal.base + t.amount]
        ELSE [quote |-> bal.quote + t.amount * t.price * 999, base |-> bal.base - t.amount]

RECURSIVE ApplyTrades(_, _)
ApplyTrades(bal, trades) ==
    IF trades = <<>> THEN bal
    ELSE ApplyTrades(ApplyTrade(bal, Head(trades)), Tail(trades))

(* The balance history last written in full to the store in use *)
PersistedBalanceHistory ==
    IF backend = "sqlite" /\ db.created THEN db.balance_history
    ELSE IF data_file.status = "complete" THEN data_file.doc.balance_history
    ELSE IF data_file.status = "torn" /\ data_file.replaced.status = "complete"
        THEN data_file.replaced.doc.balance_history
    ELSE <<>>

(* The balances of the last persisted snapshot and the recorded trades later
   than it; the opening balances and every trade when nothing is persisted. *)
SinceLastSnapshot ==
    IF PersistedBalanceHistory = <<>>
        THEN [bal |-> [quote |-> initial_balance, base |-> 0],
              trades |-> transaction_history]
    ELSE LET snap == Last(PersistedBalanceHistory)
         IN  [bal |-> [quote |-> snap.quote_balance, base |-> snap.base_balance],
              trades |-> SelectSeq(transaction_history,
                                   LAMBDA t : t.timestamp > snap.timestamp)]

(* C26: the balances are those of the last persisted snapshot with the later
   recorded trades applied at the 0.1% fee; every Trade Record holds the
   balances right after its trade, so the record of the latest trade holds
   the present balances and each record follows from the one before; also
   after restarts. *)
C26_BalancesRecomputable ==
    /\ [quote |-> quote_balance, base |-> base_balance]
           = ApplyTrades(SinceLastSnapshot.bal, SinceLastSnapshot.trades)
    /\ transaction_history # <<>> =>
           /\ Last(transaction_history).quote_balance_after = quote_balance
           /\ Last(transaction_history).base_balance_after = base_balance
    /\ \A i \in 2 .. Len(transaction_history) :
           LET prev == transaction_history[i - 1]
               t    == transaction_history[i]
           IN  [quote |-> t.quote_balance_after, base |-> t.base_balance_after]
                   = ApplyTrade([quote |-> prev.quote_balance_after,
                                 base |-> prev.base_balance_after], t)

(* C24: on a tick in which a store write fails during a trade, the trade
   completes in memory and the ledger reflects it as the account does: the
   position size moves with the base balance, and the iteration goes on to
   record the price. *)
C24_WriteFailureKeepsTrade ==
    [][ (/\ ticks' = ticks + 1
         /\ outcome' \in {"save_error_in_trade", "save_error_in_update"}
         /\ Len(transaction_history') > Len(transaction_history))
        => /\ current_position_size' - current_position_size
                   = base_balance' - base_balance
           /\ Last(balance_history').timestamp = now'
           /\ outcome' = "save_error_in_update" ]_vars

(* The session started with an empty ledger *)
StartedEmpty == balance_history[1] = FreshSession.balance_history[1]

(* C28: in a session started with an empty ledger the account's base
   balance equals the ledger's position size after every tick, also after
   rejected trades and ticks whose store write failed. *)
C28_BaseBalanceMatchesLedger ==
    StartedEmpty => base_balance = current_position_size

(* C23: a bot that cannot be constructed is fatal for its symbol only: once
   main has left the start-up loop without being stopped, every other
   configured symbol, listed before or after it, has had its loop started. *)
C23_ConfigErrorIsLocal ==
    (~stop /\ main # "submitting") =>
        \A s \in DOMAIN loop : loop[s] # "unsubmitted"

(* C21: at any time at most one thread per symbol is executing the body of
   the control loop, under every interleaving of start and stop requests
   with the threads. *)
C21_OneLoopPerSymbol ==
    \A i, j \in DOMAIN bot_threads :
        (/\ i # j
         /\ bot_threads[i].symbol = bot_threads[j].symbol
         /\ bot_threads[i].pc = "tick")
        => bot_threads[j].pc # "tick"

(* C22: a loop for which stop(symbol) has returned success begins no tick
   after the one in flight, also when the stop came before the thread's
   first statement; and when it has ended and the symbol has not been
   started again, the status of the symbol is 'stopped'. *)
C22_StoppedLoopBeginsNoTick ==
    /\ [][ \A i \in DOMAIN bot_threads :
               (bot_threads[i].stopped /\ bot_threads[i].pc # "tick")
               => bot_threads'[i].pc # "tick" ]_vars
    /\ [](\A i \in DOMAIN bot_threads :
             (/\ bot_threads[i].stopped
              /\ bot_threads[i].pc = "ended"
              /\ bot_threads[i].symbol \notin DOMAIN active_bots)
             => bot_statuses[bot_threads[i].symbol].status = "stopped")

====
